---- MODULE Spec2Model ----
(***************************************************************************)
(* A model of @fimbul-works/observable: the Signal broadcaster             *)
(* (src/src/signal.ts, first class of the file) and the observable         *)
(* containers built on it (ObservableValue, ObservableMap, ObservableSet,  *)
(* ObservableRegistry).                                                    *)
(*                                                                         *)
(* JavaScript runs one synchronous call stack to completion and then       *)
(* drains promise jobs.  The model keeps that call stack explicitly        *)
(* (stack): one frame per running emit/emitAsync, with the position of its *)
(* two loops, so that a handler body can itself call the API (connect,     *)
(* disconnect, a nested emit, ...) while a pass is in progress.  Promises  *)
(* returned by handlers live in prom; an emitAsync suspended at            *)
(* `await Promise.all(promises)` lives in waiting.                         *)
(*                                                                         *)
(* A JavaScript Set iterates in insertion order and its iterator is live.  *)
(* A Set is modelled as a duplicate-free sequence; a live iterator is the  *)
(* number i of entries already behind the cursor, which is shifted when an *)
(* entry behind the cursor is deleted and reset when the Set is cleared.   *)
(***************************************************************************)
EXTENDS Integers, Sequences, FiniteSets, TLC

\* ------------------------------------------------------------------ bounds

\* deepest nesting of emit calls (an emit issued from inside a handler)
MaxDepth == 2
\* promise slots: promises returned by handlers that are not yet disposed of
MaxProms == 2
\* emitAsync calls suspended at their await at the same time
MaxWaiting == 1

\* the handler functions the clients own, and their error-handler functions
Fn == {1, 2}
ErrFn == {1, 2}
NoFn == 0

PromIds == 1..MaxProms

\* payloads handed to Signal.emit directly
Data == {"a", "b"}

\* values a handler throws or a promise rejects with: an Error instance, or
\* a non-Error throwable (signal.test.ts throws the string "string error")
ErrVals == {[isError |-> TRUE, msg |-> "boom"], [isError |-> FALSE, msg |-> "str"]}
NoErr == [isError |-> FALSE, msg |-> ""]

\* what one invocation of a handler does when it returns: nothing (or a
\* non-promise value, which the code ignores), a synchronous throw, or a promise
Outcomes == {[t |-> "ok", e |-> NoErr], [t |-> "promise", e |-> NoErr]}
              \cup {[t |-> "throw", e |-> x] : x \in ErrVals}

VARIABLES
  handlers,       \* Signal.#handlers: Set, as a duplicate-free sequence
  onceHandlers,   \* Signal.#onceHandlers
  errorHandlers,  \* Signal.#errorHandlers
  stack,          \* running emit/emitAsync calls, innermost last
  waiting,        \* emitAsync calls suspended at await Promise.all(promises)
  prom,           \* promises returned by handlers
  ret,            \* the operation that completed in the last step, if any
  route,          \* the #handleError call made in the last step, if any
  onceRuns,       \* per function: invocations as a one-shot handler since once(fn) added it
  kind,           \* which class this instance is
  value,          \* ObservableValue.#value
  map,            \* ObservableMap.#map: Map, as a sequence of <<key, value>> entries
  set,            \* ObservableSet.#set: Set, as a duplicate-free sequence
  derived         \* the ObservableValue that map(transform) returned

vars == <<handlers, onceHandlers, errorHandlers, stack, waiting, prom, ret,
          route, onceRuns, kind, value, map, set, derived>>

store == <<kind, value, map, set, derived>>

\* ------------------------------------------------------------- JS Set

Range(s) == {s[k] : k \in 1..Len(s)}

IndexOf(s, x) == IF x \in Range(s) THEN CHOOSE k \in 1..Len(s) : s[k] = x ELSE 0

\* SetAdd as an array push would do it: an element already present is added again
SetAddDup(s, x) == Append(s, x)

\* Set.prototype.add: an element already present keeps its place
SetAdd(s, x) == IF x \in Range(s) THEN s ELSE Append(s, x)

\* Set.prototype.delete
SetDelete(s, x) == SelectSeq(s, LAMBDA y : y # x)

\* a live Set iterator with i entries behind it, after x is deleted from s
IterAfterDelete(s, i, x) ==
  IF IndexOf(s, x) > 0 /\ IndexOf(s, x) <= i THEN i - 1 ELSE i


\* ------------------------------------------------------- records in flight

\* the container operation an emit was issued by (name "none": Signal.emit or
\* Signal.emitAsync called directly)
NoCop == [name |-> "none", key |-> "-", val |-> "-", result |-> "-"]

\* A running (or suspended) emit/emitAsync call.  op, data, pc, i, snap, cur,
\* count and proms are the call's locals.  The other fields record what
\* happened in the call and are read by no action: h0 and o0 (the two
\* collections when the call was entered), inv (the invocations made, in
\* order, each with the payload it was given), pure (no handler of the pass has
\* called the API), threw (handlers
\* that threw), rejd (promises of the call's handlers that rejected), unrouted
\* (those of them not yet handed to #handleError), dirty (a container
\* operation changed the container while the call was suspended).
NoFrame ==
  [op |-> "none", cop |-> NoCop, data |-> "a", pc |-> "done", i |-> 0,
   snap |-> <<>>, cur |-> NoFn, count |-> 0, proms |-> {},
   h0 |-> <<>>, o0 |-> <<>>, inv |-> <<>>, pure |-> TRUE,
   threw |-> 0, rejd |-> 0, unrouted |-> 0, dirty |-> FALSE]

\* a call suspended at `await Promise.all(promises)`: what it still uses are
\* promises and handlerCount; of the record of its pass the counts are kept
Suspended(f) ==
  [NoFrame EXCEPT !.op = f.op, !.cop = f.cop, !.pc = "await", !.count = f.count,
                  !.proms = f.proms, !.threw = f.threw, !.rejd = f.rejd,
                  !.unrouted = f.unrouted]

NoRet == [status |-> "none", f |-> NoFrame]

NoRoute ==
  [src |-> "none", p |-> 0, err |-> NoErr, ehs |-> <<>>, bad |-> {},
   calls |-> <<>>, sink |-> <<>>, thrown |-> FALSE]

FreeProm == [st |-> "free", e |-> NoErr]

Top == stack[Len(stack)]
Pop(stk) == SubSeq(stk, 1, Len(stk) - 1)
SetTop(stk, f) == [stk EXCEPT ![Len(stk)] = f]

\* both loops are over: the call is at `return handlerCount` (emit) or at the
\* test of promises.length (emitAsync)
Finished(f) == f.pc = "once" /\ f.cur = NoFn /\ Len(f.snap) = 0

\* Proceed with the second loop written over Array.from(this.#handlers.values())
ProceedCopyPaste(f, hs, os) ==
  IF f.pc = "reg" /\ f.i < Len(hs)
  THEN [f EXCEPT !.cur = hs[f.i + 1], !.i = @ + 1,
                 !.inv = Append(@, <<"h", hs[f.i + 1], f.data>>)]
  ELSE LET snap == IF f.pc = "reg" THEN hs ELSE f.snap
       IN  IF Len(snap) > 0
           THEN [f EXCEPT !.pc = "once", !.cur = Head(snap), !.snap = Tail(snap),
                          !.inv = Append(@, <<"o", Head(snap), f.data>>)]
           ELSE [f EXCEPT !.pc = "once", !.snap = <<>>]

\* Proceed with the first loop written over Array.from(this.#handlers.values())
\* taken when the call was entered
ProceedOverCopy(f, hs, os) ==
  IF f.pc = "reg" /\ f.i < Len(f.h0)
  THEN [f EXCEPT !.cur = f.h0[f.i + 1], !.i = @ + 1,
                 !.inv = Append(@, <<"h", f.h0[f.i + 1], f.data>>)]
  ELSE LET snap == IF f.pc = "reg" THEN os ELSE f.snap
       IN  IF Len(snap) > 0
           THEN [f EXCEPT !.pc = "once", !.cur = Head(snap), !.snap = Tail(snap),
                          !.inv = Append(@, <<"o", Head(snap), f.data>>)]
           ELSE [f EXCEPT !.pc = "once", !.snap = <<>>]

\* Control is in the loops of a call, between two handlers (f.cur = NoFn): it
\* goes on to the call of the next handler, fn(data).  The first loop takes the
\* next entry of the live #handlers (hs); when there is none, the second loop
\* starts over Array.from(#onceHandlers.values()) (os) and takes the next entry
\* of that array; when there is none either the loops are over.
Proceed(f, hs, os) ==
  IF f.pc = "reg" /\ f.i < Len(hs)
  THEN [f EXCEPT !.cur = hs[f.i + 1], !.i = @ + 1,
                 !.inv = Append(@, <<"h", hs[f.i + 1], f.data>>)]
  ELSE LET snap == IF f.pc = "reg" THEN os ELSE f.snap
       IN  IF Len(snap) > 0
           THEN [f EXCEPT !.pc = "once", !.cur = Head(snap), !.snap = Tail(snap),
                          !.inv = Append(@, <<"o", Head(snap), f.data>>)]
           ELSE [f EXCEPT !.pc = "once", !.snap = <<>>]

\* calls of the API that handlers make during one call from the event loop
MaxActs == 1

\* calls of the API made by handlers of the running passes
Acts == Cardinality({k \in 1..Len(stack) : ~stack[k].pure})

\* code runs from the event loop (empty stack)
AtTop == Len(stack) = 0

\* code runs inside the handler that the innermost pass is calling
InHandler == IF Len(stack) = 0 THEN FALSE ELSE Top.pure /\ Acts < MaxActs

\* code runs in either place
CanCall == AtTop \/ InHandler

\* the stack after a call was made from where control is: the pass whose
\* handler made the call is marked
Called(stk) ==
  IF Len(stk) = 0 THEN <<>>
  ELSE [stk EXCEPT ![Len(stk)] = [@ EXCEPT !.pure = FALSE]]

\* every live iterator over #handlers after #handlers.delete(x)
AdjustDelete(stk, x) ==
  [k \in 1..Len(stk) |->
     IF stk[k].pc = "reg"
     THEN [stk[k] EXCEPT !.i = IterAfterDelete(handlers, @, x)]
     ELSE stk[k]]

\* every live iterator over #handlers after #handlers.clear()
AdjustClear(stk) ==
  [k \in 1..Len(stk) |->
     IF stk[k].pc = "reg" THEN [stk[k] EXCEPT !.i = 0] ELSE stk[k]]

\* cap of the counter onceRuns
MaxRuns == 2

\* the one-shot registration of fn is in force: fn is in #onceHandlers, or a
\* running pass holds it in its array copy or is calling it from there
InForce(fn, stk, os) ==
  \/ fn \in Range(os)
  \/ \E k \in 1..Len(stk) :
       fn \in Range(stk[k].snap) \/ (stk[k].pc = "once" /\ stk[k].cur = fn)

\* onceRuns counts for the registration in force only
Runs(runs, stk, os) ==
  [fn \in Fn |-> IF InForce(fn, stk, os) THEN runs[fn] ELSE 0]

\* onceRuns after control went on to frame g: g.cur is counted when it is
\* called by the second loop
Ran(runs, g) ==
  IF g.pc = "once" /\ g.cur # NoFn
  THEN [runs EXCEPT ![g.cur] = IF @ < MaxRuns THEN @ + 1 ELSE @]
  ELSE runs

\* ---------------------------------------------------------- #handleError

\* error instanceof Error ? error : new Error(String(error))
Normalize(err) == IF err.isError THEN err ELSE [isError |-> TRUE, msg |-> err.msg]

\* what an error handler throws when it fails
ErrHandlerErr == [isError |-> TRUE, msg |-> "error handler error"]

\* RunErrorHandlers without the try/catch around errFn(errorObj), as in the
\* second Signal class of signal.ts: the first error handler that throws ends
\* the loop and its exception leaves #handleError
RECURSIVE RunErrorHandlersNoCatch(_, _, _)
RunErrorHandlersNoCatch(ehs, errorObj, bad) ==
  IF ehs = <<>>
  THEN [calls |-> <<>>, sink |-> <<>>, thrown |-> FALSE]
  ELSE IF Head(ehs) \in bad
  THEN [calls |-> <<<<Head(ehs), errorObj>>>>, sink |-> <<>>, thrown |-> TRUE]
  ELSE LET rest == RunErrorHandlersNoCatch(Tail(ehs), errorObj, bad)
       IN  [calls |-> <<<<Head(ehs), errorObj>>>> \o rest.calls,
            sink |-> rest.sink,
            thrown |-> rest.thrown]

\* the loop over #errorHandlers; bad is the set of error handlers that throw
\* when called this time
RECURSIVE RunErrorHandlers(_, _, _)
RunErrorHandlers(ehs, errorObj, bad) ==
  IF ehs = <<>>
  THEN [calls |-> <<>>, sink |-> <<>>, thrown |-> FALSE]
  ELSE LET rest == RunErrorHandlers(Tail(ehs), errorObj, bad)
           caught == IF Head(ehs) \in bad
                     THEN <<[tag |-> "Error in error handler:", err |-> ErrHandlerErr]>>
                     ELSE <<>>
       IN  [calls |-> <<<<Head(ehs), errorObj>>>> \o rest.calls,
            sink |-> caught \o rest.sink,
            thrown |-> FALSE]

\* HandleError with console.error(errorObj) outside the else branch: the error
\* is logged whether or not error handlers are registered
HandleErrorAlsoLogs(ehs, err, bad) ==
  LET r == RunErrorHandlers(ehs, Normalize(err), bad)
  IN  [calls |-> r.calls,
       sink |-> r.sink \o <<[tag |-> "", err |-> Normalize(err)]>>,
       thrown |-> FALSE]

\* HandleError that throws the error on after having reported it
HandleErrorRethrows(ehs, err, bad) ==
  IF Len(ehs) > 0
  THEN [RunErrorHandlers(ehs, Normalize(err), bad) EXCEPT !.thrown = TRUE]
  ELSE [calls |-> <<>>, sink |-> <<[tag |-> "", err |-> Normalize(err)]>>,
        thrown |-> TRUE]

\* Signal.#handleError(error): who was called with what, what went to
\* console.error, and whether the call itself threw
HandleError(ehs, err, bad) ==
  IF Len(ehs) > 0
  THEN RunErrorHandlers(ehs, Normalize(err), bad)
  ELSE [calls |-> <<>>, sink |-> <<[tag |-> "", err |-> Normalize(err)]>>,
        thrown |-> FALSE]

Routed(src, p, err, bad, r) ==
  [src |-> src, p |-> p, err |-> err, ehs |-> errorHandlers,
   bad |-> bad \cap Range(errorHandlers), calls |-> r.calls, sink |-> r.sink,
   thrown |-> r.thrown]

\* ------------------------------------------------------------- promises

FreeSlots == {p \in PromIds : prom[p].st = "free"}
NewSlot == CHOOSE p \in FreeSlots : \A q \in FreeSlots : p <= q

\* AwaitedState with `result` itself collected, no .catch attached: a
\* rejection of the handler's promise is a rejection of the collected one
AwaitedStateNoCatch(st) ==
  CASE st = "done" -> "fulfilled"
    [] st \in {"failed", "rejected"} -> "rejected"
    [] OTHER -> "pending"

\* The states of a handler's promise `result`: "pending"; "rejected" (the
\* reaction is still to run); "done" (fulfilled, or rejected and the reaction
\* has run); "failed" (the reaction ran and #handleError threw).
\* AwaitedState is the state of result.catch(this.#handleError.bind(this)),
\* the promise that emitAsync collects: it settles once the reaction has run,
\* and fulfils unless #handleError threw.
AwaitedState(st) ==
  CASE st = "done" -> "fulfilled"
    [] st = "failed" -> "rejected"
    [] OTHER -> "pending"

\* PromiseAll as Promise.race would settle: with the first promise that does
PromiseAllAny(states) ==
  IF "rejected" \in states THEN "rejected"
  ELSE IF "fulfilled" \in states THEN "fulfilled"
  ELSE "pending"

\* Promise.all over promises in the given states
PromiseAll(states) ==
  IF "rejected" \in states THEN "rejected"
  ELSE IF states \subseteq {"fulfilled"} THEN "fulfilled"
  ELSE "pending"

\* the suspended call, if any, that collected promise p
Holders(p) == {w \in waiting : p \in w.proms}


\* ------------------------------------------------------ Signal: the API

NewFrame(op, cop, d) ==
  [NoFrame EXCEPT !.op = op, !.cop = cop, !.data = d, !.pc = "reg",
                  !.h0 = handlers, !.o0 = onceHandlers]

\* what every step that neither completes an operation nor routes an error
\* does to the two one-step records
Quiet == ret' = NoRet /\ route' = NoRoute

\* what a call that only empties collections does to the two one-step
\* records: ret keeps which call it was (name) and its argument (fn); the
\* call returns to its caller and routes nothing
Did(name, fn) ==
  /\ ret' = [status |-> "called", f |-> [NoFrame EXCEPT !.op = name, !.cur = fn]]
  /\ route' = NoRoute

\* connect(fn)
Connect(fn) ==
  /\ CanCall
  /\ handlers' = SetAdd(handlers, fn)
  /\ stack' = Called(stack)
  /\ Quiet
  /\ UNCHANGED <<onceHandlers, errorHandlers, waiting, prom, onceRuns, store>>

\* once(fn)
Once(fn) ==
  /\ CanCall
  /\ onceHandlers' = SetAdd(onceHandlers, fn)
  /\ onceRuns' = IF fn \in Range(onceHandlers) THEN onceRuns
                 ELSE [onceRuns EXCEPT ![fn] = 0]
  /\ stack' = Called(stack)
  /\ Quiet
  /\ UNCHANGED <<handlers, errorHandlers, waiting, prom, store>>

\* the token returned by connect(fn): () => this.#handlers.delete(fn).  The
\* token exists once connect(fn) was called; before that fn is not in
\* #handlers, so the guard admits exactly the calls that change anything.
ConnectToken(fn) ==
  /\ CanCall
  /\ fn \in Range(handlers)
  /\ handlers' = SetDelete(handlers, fn)
  /\ stack' = Called(AdjustDelete(stack, fn))
  /\ Quiet
  /\ UNCHANGED <<onceHandlers, errorHandlers, waiting, prom, onceRuns, store>>

\* OnceToken with the token of connect returned by once:
\* () => this.#handlers.delete(fn)
OnceTokenCopyPaste(fn) ==
  /\ CanCall
  /\ fn \in Range(onceHandlers)
  /\ handlers' = SetDelete(handlers, fn)
  /\ stack' = Called(AdjustDelete(stack, fn))
  /\ Did("onceToken", fn)
  /\ UNCHANGED <<onceHandlers, errorHandlers, waiting, prom, onceRuns, store>>

\* the token returned by once(fn): () => this.#onceHandlers.delete(fn)
OnceToken(fn) ==
  /\ CanCall
  /\ fn \in Range(onceHandlers)
  /\ onceHandlers' = SetDelete(onceHandlers, fn)
  /\ stack' = Called(stack)
  /\ onceRuns' = Runs(onceRuns, stack', onceHandlers')
  /\ Did("onceToken", fn)
  /\ UNCHANGED <<handlers, errorHandlers, waiting, prom, store>>

\* Disconnect without this.#onceHandlers.delete(fn): a one-shot registration
\* of fn stays
DisconnectPersistentOnly(fn) ==
  /\ CanCall
  /\ handlers' = SetDelete(handlers, fn)
  /\ stack' = Called(AdjustDelete(stack, fn))
  /\ Did("disconnect", fn)
  /\ UNCHANGED <<onceHandlers, errorHandlers, waiting, prom, onceRuns, store>>

\* disconnect(fn) with a handler
Disconnect(fn) ==
  /\ CanCall
  /\ handlers' = SetDelete(handlers, fn)
  /\ onceHandlers' = SetDelete(onceHandlers, fn)
  /\ stack' = Called(AdjustDelete(stack, fn))
  /\ onceRuns' = Runs(onceRuns, stack', onceHandlers')
  /\ Did("disconnect", fn)
  /\ UNCHANGED <<errorHandlers, waiting, prom, store>>

\* disconnect() with no (or a falsy) argument
DisconnectAll ==
  /\ CanCall
  /\ handlers' = <<>>
  /\ onceHandlers' = <<>>
  /\ stack' = Called(AdjustClear(stack))
  /\ onceRuns' = Runs(onceRuns, stack', onceHandlers')
  /\ Did("disconnect", NoFn)
  /\ UNCHANGED <<errorHandlers, waiting, prom, store>>

\* connectError(fn)
ConnectError(fn) ==
  /\ CanCall
  /\ errorHandlers' = SetAdd(errorHandlers, fn)
  /\ stack' = Called(stack)
  /\ Quiet
  /\ UNCHANGED <<handlers, onceHandlers, waiting, prom, onceRuns, store>>

\* disconnectError(fn), and the token returned by connectError(fn)
DisconnectError(fn) ==
  /\ CanCall
  /\ fn \in Range(errorHandlers)
  /\ errorHandlers' = SetDelete(errorHandlers, fn)
  /\ stack' = Called(stack)
  /\ Quiet
  /\ UNCHANGED <<handlers, onceHandlers, waiting, prom, onceRuns, store>>

\* Destroy without this.#errorHandlers.clear(): what disconnect() does
DestroyKeepsErrorHandlers ==
  /\ CanCall
  /\ handlers' = <<>>
  /\ onceHandlers' = <<>>
  /\ stack' = Called(AdjustClear(stack))
  /\ onceRuns' = Runs(onceRuns, stack', onceHandlers')
  /\ Did("destroy", NoFn)
  /\ UNCHANGED <<errorHandlers, waiting, prom, store>>

\* destroy()
Destroy ==
  /\ CanCall
  /\ handlers' = <<>>
  /\ onceHandlers' = <<>>
  /\ errorHandlers' = <<>>
  /\ stack' = Called(AdjustClear(stack))
  /\ onceRuns' = Runs(onceRuns, stack', onceHandlers')
  /\ Did("destroy", NoFn)
  /\ UNCHANGED <<waiting, prom, store>>

\* listenerCount()
ListenerCount == Len(handlers) + Len(onceHandlers)

\* hasHandlers()
HasHandlers == Len(handlers) > 0 \/ Len(onceHandlers) > 0

\* emitAsync calls that are running or suspended
AsyncCalls ==
  Cardinality(waiting) + Cardinality({k \in 1..Len(stack) : stack[k].op = "emitAsync"})

\* Land without the await: emitAsync returns handlerCount at the end of its
\* loops whatever promises it collected
LandNoAwait(stk, g) ==
  IF ~Finished(g)
  THEN [stack |-> Append(stk, g), ret |-> NoRet, waiting |-> waiting]
  ELSE [stack |-> stk,
        ret |-> [status |-> IF g.op = "emit" THEN "returned" ELSE "resolved", f |-> g],
        waiting |-> waiting]

\* Land with emit awaiting the promises of its handlers as emitAsync does
LandWaits(stk, g) ==
  IF ~Finished(g)
  THEN [stack |-> Append(stk, g), ret |-> NoRet, waiting |-> waiting]
  ELSE IF g.proms = {}
  THEN [stack |-> stk,
        ret |-> [status |-> IF g.op = "emit" THEN "returned" ELSE "resolved", f |-> g],
        waiting |-> waiting]
  ELSE [stack |-> stk, ret |-> [status |-> "suspended", f |-> g],
        waiting |-> waiting \cup {Suspended(g)}]

\* Where a call stands once control has gone on in its frame g, stk being the
\* frames under it: inside the next handler, or at the end of its loops, where
\* emit returns handlerCount and emitAsync resolves with it, unless it
\* collected promises and is suspended at `await Promise.all(promises)`.
Land(stk, g) ==
  IF ~Finished(g)
  THEN [stack |-> Append(stk, g), ret |-> NoRet, waiting |-> waiting]
  ELSE IF g.op = "emit"
  THEN [stack |-> stk, ret |-> [status |-> "returned", f |-> g], waiting |-> waiting]
  ELSE IF g.proms = {}
  THEN [stack |-> stk, ret |-> [status |-> "resolved", f |-> g], waiting |-> waiting]
  ELSE [stack |-> stk, ret |-> [status |-> "suspended", f |-> g],
        waiting |-> waiting \cup {Suspended(g)}]

\* the suspended calls ws once operation cop has been issued: a container
\* operation that notifies has changed the container under them
Overlapped(ws, cop) ==
  IF cop.name = "none" THEN ws ELSE {[w EXCEPT !.dirty = TRUE] : w \in ws}

\* emit(data) or emitAsync(data) is called and runs up to the call of its
\* first handler, or to its end when there is none
Enter(op, cop, d) ==
  /\ CanCall
  /\ Len(stack) < MaxDepth
  /\ op = "emitAsync" => AsyncCalls < MaxWaiting
  /\ LET g == Proceed(NewFrame(op, cop, d), handlers, onceHandlers)
         l == Land(Called(stack), g)
     IN  /\ stack' = l.stack
         /\ ret' = l.ret
         /\ waiting' = (l.waiting \ waiting) \cup Overlapped(waiting, cop)
         /\ onceRuns' = Runs(Ran(onceRuns, g), l.stack, onceHandlers)
  /\ route' = NoRoute

\* emit(data)
Emit(d) ==
  /\ Enter("emit", NoCop, d)
  /\ UNCHANGED <<handlers, onceHandlers, errorHandlers, prom, store>>

\* emitAsync(data)
EmitAsync(d) ==
  /\ Enter("emitAsync", NoCop, d)
  /\ UNCHANGED <<handlers, onceHandlers, errorHandlers, prom, store>>

\* ------------------------------------------- Signal: inside emit/emitAsync

\* handlerCount after a handler was called with outcome t; the increment comes
\* after fn(data) inside the try block
CountAfter(count, t) == IF t = "throw" THEN count ELSE count + 1

\* the status a call ends with when the exception of #handleError leaves it
Aborted(f) == [status |-> IF f.op = "emit" THEN "threw" ELSE "rejected", f |-> f]

\* HandlerReturn with no this.#onceHandlers.delete(fn) in the catch block of
\* the second loop: a one-shot handler that throws stays registered
HandlerReturnKeepsThrower(o, bad) ==
  /\ Len(stack) > 0
  /\ o.t = "promise" => FreeSlots # {}
  /\ LET f == Top
         r == HandleError(errorHandlers, o.e, bad)
         once2 == IF f.pc = "once" /\ o.t # "throw"
                  THEN SetDelete(onceHandlers, f.cur) ELSE onceHandlers
         g == [f EXCEPT !.cur = NoFn,
                        !.count = CountAfter(@, o.t),
                        !.threw = IF o.t = "throw" THEN @ + 1 ELSE @,
                        !.proms = IF o.t = "promise" THEN @ \cup {NewSlot} ELSE @]
         g2 == Proceed(g, handlers, once2)
         l == Land(Pop(stack), g2)
     IN  /\ onceHandlers' = once2
         /\ prom' = IF o.t = "promise"
                    THEN [prom EXCEPT ![NewSlot] = [st |-> "pending", e |-> NoErr]]
                    ELSE prom
         /\ route' = IF o.t = "throw" THEN Routed("sync", 0, o.e, bad, r) ELSE NoRoute
         /\ stack' = l.stack
         /\ ret' = l.ret
         /\ waiting' = l.waiting
         /\ onceRuns' = Runs(Ran(onceRuns, g2), l.stack, once2)
  /\ UNCHANGED <<handlers, errorHandlers, store>>

\* The handler being called returns: the rest of the loop body (try and
\* catch), and on to the next handler or the end of the call.  o is what the
\* handler did, bad the error handlers that throw if called.
HandlerStep(o, bad) ==
  /\ Len(stack) > 0
  /\ o.t = "promise" => FreeSlots # {}
  /\ LET f == Top
         r == HandleError(errorHandlers, o.e, bad)
         failed == o.t = "throw" /\ r.thrown
         once2 == IF f.pc = "once" /\ ~failed
                  THEN SetDelete(onceHandlers, f.cur) ELSE onceHandlers
         g == [f EXCEPT !.cur = NoFn,
                        !.count = CountAfter(@, o.t),
                        !.threw = IF o.t = "throw" THEN @ + 1 ELSE @,
                        !.proms = IF o.t = "promise" THEN @ \cup {NewSlot} ELSE @]
         g2 == Proceed(g, handlers, once2)
         l == Land(Pop(stack), g2)
     IN  /\ onceHandlers' = once2
         /\ prom' = IF o.t = "promise"
                    THEN [prom EXCEPT ![NewSlot] = [st |-> "pending", e |-> NoErr]]
                    ELSE prom
         /\ route' = IF o.t = "throw" THEN Routed("sync", 0, o.e, bad, r) ELSE NoRoute
         /\ IF failed
            THEN /\ stack' = Pop(stack)
                 /\ ret' = Aborted(g)
                 /\ waiting' = waiting
                 /\ onceRuns' = Runs(onceRuns, stack', once2)
            ELSE /\ stack' = l.stack
                 /\ ret' = l.ret
                 /\ waiting' = l.waiting
                 /\ onceRuns' = Runs(Ran(onceRuns, g2), l.stack, once2)
  /\ UNCHANGED <<handlers, errorHandlers>>

\* HandlerReturn with the catch block of emitAsync's second loop left without
\* this.#onceHandlers.delete(fn), that of emit's as it is
HandlerReturnAsyncKeeps(o, bad) ==
  IF Len(stack) = 0 THEN FALSE
  ELSE IF Top.op = "emitAsync" THEN HandlerReturnKeepsThrower(o, bad)
  ELSE HandlerStep(o, bad) /\ UNCHANGED store

\* a handler that leaves the containers alone returns
HandlerReturn(o, bad) == HandlerStep(o, bad) /\ UNCHANGED store

\* ------------------------------------------------------- promise jobs

\* the waiting calls, with the one that collected p (if any) changed by Upd
Touch(p, Upd(_)) ==
  {IF p \in w.proms THEN Upd(w) ELSE w : w \in waiting}

\* a promise returned by a handler fulfils; the promise derived from it by
\* .catch fulfils with it, no handler of the reaction being called
Fulfil(p) ==
  /\ Len(stack) = 0
  /\ prom[p].st = "pending"
  /\ prom' = [prom EXCEPT ![p] = IF Holders(p) = {} THEN FreeProm
                                 ELSE [@ EXCEPT !.st = "done"]]
  /\ Quiet
  /\ UNCHANGED <<handlers, onceHandlers, errorHandlers, stack, waiting, onceRuns, store>>

\* a promise returned by a handler rejects with e
Reject(p, e) ==
  /\ Len(stack) = 0
  /\ prom[p].st = "pending"
  /\ prom' = [prom EXCEPT ![p] = [st |-> "rejected", e |-> e]]
  /\ waiting' = Touch(p, LAMBDA w : [w EXCEPT !.rejd = @ + 1, !.unrouted = @ + 1])
  /\ Quiet
  /\ UNCHANGED <<handlers, onceHandlers, errorHandlers, stack, onceRuns, store>>

\* the reaction attached by result.catch(this.#handleError.bind(this)) runs
\* on the rejected promise
React(p, bad) ==
  /\ Len(stack) = 0
  /\ prom[p].st = "rejected"
  /\ LET r == HandleError(errorHandlers, prom[p].e, bad)
         st2 == IF Holders(p) = {} THEN "free"
                ELSE IF r.thrown THEN "failed" ELSE "done"
     IN  /\ prom' = [prom EXCEPT ![p] = IF st2 = "free" THEN FreeProm
                                        ELSE [st |-> st2, e |-> NoErr]]
         /\ route' = Routed("promise", p, prom[p].e, bad, r)
         /\ waiting' = Touch(p, LAMBDA w : [w EXCEPT !.unrouted = @ - 1])
  /\ ret' = NoRet
  /\ UNCHANGED <<handlers, onceHandlers, errorHandlers, stack, onceRuns, store>>

\* Resume with the array of promises shared by the calls on the signal: the
\* suspended emitAsync goes on only when no promise of any handler is pending
ResumeWaitsAll(w) ==
  /\ Len(stack) = 0
  /\ w \in waiting
  /\ \A p \in PromIds : prom[p].st \notin {"pending", "rejected"}
  /\ LET all == PromiseAll({AwaitedState(prom[p].st) : p \in w.proms})
     IN  /\ all # "pending"
         /\ ret' = [status |-> IF all = "fulfilled" THEN "resolved" ELSE "rejected",
                    f |-> w]
  /\ waiting' = waiting \ {w}
  /\ prom' = [p \in PromIds |->
                IF p \in w.proms /\ prom[p].st \in {"done", "failed"}
                THEN FreeProm ELSE prom[p]]
  /\ route' = NoRoute
  /\ UNCHANGED <<handlers, onceHandlers, errorHandlers, stack, onceRuns, store>>

\* Resume with the promises of the handlers of the derived observable joined
\* as well, as if the handler of map awaited derived.setAsync
ResumeWaitsDerived(w) ==
  /\ derived.pending = 0
  /\ Len(stack) = 0
  /\ w \in waiting
  /\ LET all == PromiseAll({AwaitedState(prom[p].st) : p \in w.proms})
     IN  /\ all # "pending"
         /\ ret' = [status |-> IF all = "fulfilled" THEN "resolved" ELSE "rejected",
                    f |-> w]
  /\ waiting' = waiting \ {w}
  /\ prom' = [p \in PromIds |->
                IF p \in w.proms /\ prom[p].st \in {"done", "failed"}
                THEN FreeProm ELSE prom[p]]
  /\ route' = NoRoute
  /\ UNCHANGED <<handlers, onceHandlers, errorHandlers, stack, onceRuns, store>>

\* Promise.all(promises) has settled and the suspended emitAsync goes on to
\* `return handlerCount`, or rejects with the reason of Promise.all
Resume(w) ==
  /\ Len(stack) = 0
  /\ w \in waiting
  /\ LET all == PromiseAll({AwaitedState(prom[p].st) : p \in w.proms})
     IN  /\ all # "pending"
         /\ ret' = [status |-> IF all = "fulfilled" THEN "resolved" ELSE "rejected",
                    f |-> w]
  /\ waiting' = waiting \ {w}
  /\ prom' = [p \in PromIds |->
                IF p \in w.proms /\ prom[p].st \in {"done", "failed"}
                THEN FreeProm ELSE prom[p]]
  /\ route' = NoRoute
  /\ UNCHANGED <<handlers, onceHandlers, errorHandlers, stack, onceRuns, store>>

\* ------------------------------------------------- Signal: specification

NoValue == "undefined"

\* no observable was derived with map: derived.made is FALSE.  Of a derived
\* observable the model keeps #value, whether a handler that returns a promise
\* is subscribed to it (observed) and how many promises returned by that
\* handler are pending
NoDerived == [made |-> FALSE, value |-> NoValue, observed |-> FALSE, pending |-> 0]

Init ==
  /\ handlers = <<>>
  /\ onceHandlers = <<>>
  /\ errorHandlers = <<>>
  /\ stack = <<>>
  /\ waiting = {}
  /\ prom = [p \in PromIds |-> FreeProm]
  /\ ret = NoRet
  /\ route = NoRoute
  /\ onceRuns = [fn \in Fn |-> 0]
  /\ kind = "signal"
  /\ value = NoValue
  /\ map = <<>>
  /\ set = <<>>
  /\ derived = NoDerived

\* what a handler may do when it returns, and which error handlers throw
Returns(outs) ==
  \E o \in outs : \E bad \in SUBSET Range(errorHandlers) :
    (o.t # "throw" => bad = {}) /\ HandlerReturn(o, bad)

\* the promise jobs; errs are the reasons promises reject with
Jobs(errs) ==
  \/ \E p \in PromIds : Fulfil(p)
  \/ \E p \in PromIds : \E e \in errs : Reject(p, e)
  \/ \E p \in PromIds : \E bad \in SUBSET Range(errorHandlers) : React(p, bad)
  \/ \E w \in waiting : Resume(w)

\* Spec: a Signal whose clients call it from the event loop only, and whose
\* handlers return or throw
SyncOutcomes == {o \in Outcomes : o.t # "promise"}

Next ==
  \/ AtTop /\ \E fn \in Fn : Connect(fn)
  \/ AtTop /\ \E fn \in Fn : Once(fn)
  \/ AtTop /\ \E fn \in Fn : ConnectToken(fn)
  \/ AtTop /\ \E fn \in Fn : OnceToken(fn)
  \/ AtTop /\ \E fn \in Fn : Disconnect(fn)
  \/ AtTop /\ DisconnectAll
  \/ AtTop /\ \E fn \in ErrFn : ConnectError(fn)
  \/ AtTop /\ \E fn \in ErrFn : DisconnectError(fn)
  \/ AtTop /\ Destroy
  \/ AtTop /\ \E d \in Data : Emit(d)
  \/ AtTop /\ \E d \in Data : EmitAsync(d)
  \/ Returns(SyncOutcomes)

Spec == Init /\ [][Next]_vars

\* SpecAsync: a Signal whose clients call it from the event loop only, and
\* whose handlers return, throw or return a promise that settles later.  The
\* clients are one that connects either function, one that registers function
\* 2 for one shot, and one that registers error handler 1; the payload is "a".
NextAsync ==
  \/ AtTop /\ \E fn \in Fn : Connect(fn)
  \/ AtTop /\ Once(2)
  \/ AtTop /\ \E fn \in Fn : Disconnect(fn)
  \/ AtTop /\ ConnectError(1)
  \/ AtTop /\ DisconnectError(1)
  \/ AtTop /\ Emit("a")
  \/ AtTop /\ EmitAsync("a")
  \/ Returns(Outcomes)
  \/ Jobs(ErrVals)

SpecAsync == Init /\ [][NextAsync]_vars

\* SpecAsync with the scheduling of the JavaScript run time: a running call
\* runs to completion (every handler returns), and the reaction of a rejected
\* promise is a job that the event loop runs once the call stack is empty
FairAsync ==
  /\ WF_vars(Returns(Outcomes))
  /\ \A p \in PromIds : SF_vars(\E bad \in SUBSET Range(errorHandlers) : React(p, bad))

FairSpecAsync == SpecAsync /\ FairAsync

\* SpecRe: a Signal whose handlers call it back while a pass is running (at
\* most MaxActs calls, MaxDepth passes deep); handlers return or throw, and
\* no error handler is registered
NextRe ==
  \/ \E fn \in Fn : Connect(fn)
  \/ \E fn \in Fn : Once(fn)
  \/ \E fn \in Fn : ConnectToken(fn)
  \/ \E fn \in Fn : OnceToken(fn)
  \/ \E fn \in Fn : Disconnect(fn)
  \/ DisconnectAll
  \/ Destroy
  \/ \E d \in Data : Emit(d)
  \/ \E d \in Data : EmitAsync(d)
  \/ Returns(SyncOutcomes)

SpecRe == Init /\ [][NextRe]_vars

\* SpecRm: a Signal whose handlers remove handlers while a pass is running:
\* the clients register and emit from the event loop, and a handler may use a
\* cleanup token, disconnect(fn), disconnect() or destroy()
NextRm ==
  \/ AtTop /\ \E fn \in Fn : Connect(fn)
  \/ AtTop /\ \E fn \in Fn : Once(fn)
  \/ AtTop /\ \E d \in Data : Emit(d)
  \/ AtTop /\ \E d \in Data : EmitAsync(d)
  \/ InHandler /\ \E fn \in Fn : ConnectToken(fn)
  \/ InHandler /\ \E fn \in Fn : OnceToken(fn)
  \/ InHandler /\ \E fn \in Fn : Disconnect(fn)
  \/ InHandler /\ DisconnectAll
  \/ InHandler /\ Destroy
  \/ Returns(SyncOutcomes)

SpecRm == Init /\ [][NextRm]_vars

\* SpecLive: a Signal whose persistent handlers connect handlers while a pass
\* is running; the clients register and emit from the event loop
NextLive ==
  \/ AtTop /\ \E fn \in Fn : Connect(fn)
  \/ AtTop /\ \E fn \in Fn : Once(fn)
  \/ AtTop /\ \E d \in Data : Emit(d)
  \/ AtTop /\ \E d \in Data : EmitAsync(d)
  \/ InHandler /\ Top.pc = "reg" /\ \E fn \in Fn : Connect(fn)
  \/ Returns(SyncOutcomes)

SpecLive == Init /\ [][NextLive]_vars

\* SpecDestroy: a Signal that its owner destroys, and goes on using, from the
\* event loop while promises returned by handlers may be pending.  The
\* clients connect function 1, register function 2 for one shot and register
\* error handler 1; the payload is "a".
NextDestroy ==
  \/ AtTop /\ Connect(1)
  \/ AtTop /\ Once(2)
  \/ AtTop /\ ConnectError(1)
  \/ AtTop /\ Destroy
  \/ AtTop /\ Emit("a")
  \/ AtTop /\ EmitAsync("a")
  \/ Returns(Outcomes)
  \/ Jobs(ErrVals)

SpecDestroy == Init /\ [][NextDestroy]_vars

\* ------------------------------------------------------------ containers

\* keys of the keyed collection and the registry, items of the unique-item
\* collection
Keys == {"k1", "k2"}

\* stored values: undefined, not-a-number, the two zeros
Vals == {"undefined", "NaN", "+0", "-0"}

\* Object.is(a, b)
ObjectIs(a, b) == a = b

\* a === b
StrictEq(a, b) ==
  IF a = "NaN" \/ b = "NaN" THEN FALSE
  ELSE IF a \in {"+0", "-0"} /\ b \in {"+0", "-0"} THEN TRUE
  ELSE a = b

\* Map.prototype.has, get, set, delete on a sequence of entries
MapHas(m, k) == \E j \in 1..Len(m) : m[j][1] = k
MapGet(m, k) ==
  IF MapHas(m, k) THEN m[CHOOSE j \in 1..Len(m) : m[j][1] = k][2] ELSE "undefined"
MapPut(m, k, v) ==
  IF MapHas(m, k)
  THEN [j \in 1..Len(m) |-> IF m[j][1] = k THEN <<k, v>> ELSE m[j]]
  ELSE Append(m, <<k, v>>)
MapRemove(m, k) == SelectSeq(m, LAMBDA en : en[1] # k)

\* CollectionEvent; a field the event does not carry is "-"
Event(type, k, v, old) == [type |-> type, key |-> k, value |-> v, oldValue |-> old]

\* the two ways a mutator notifies: this.#signal.emit, await this.#signal.emitAsync
Ops == {"emit", "emitAsync"}

\* the container operation a step is about
Cop(name, k, v, result) == [name |-> name, key |-> k, val |-> v, result |-> result]

\* An operation ends without notifying: it returns (a sync method) or its
\* promise resolves (an async method) when failed is FALSE, it throws or its
\* promise rejects when failed is TRUE.
Complete(op, cop, failed) ==
  /\ CanCall
  /\ stack' = Called(stack)
  /\ ret' = [status |-> IF op = "emit"
                        THEN (IF failed THEN "threw" ELSE "returned")
                        ELSE (IF failed THEN "rejected" ELSE "resolved"),
             f |-> [NoFrame EXCEPT !.op = op, !.cop = cop]]
  /\ route' = NoRoute
  /\ UNCHANGED <<handlers, onceHandlers, errorHandlers, waiting, prom, onceRuns>>

\* An operation notifies its observers of event d through its signal and
\* returns what the operation returns once emit has returned (emitAsync has
\* resolved).
Notify(op, cop, d) ==
  /\ Enter(op, cop, d)
  /\ UNCHANGED <<handlers, onceHandlers, errorHandlers, prom>>

\* ValueWrite without the assignment to this.#value: the observers are
\* notified of a value that is not stored
ValueWriteNoStore(op, name, v) ==
  IF ~ObjectIs(value, v)
  THEN /\ Notify(op, Cop(name, "-", v, "this"), v)
       /\ UNCHANGED store
  ELSE /\ Complete(op, Cop(name, "-", v, "this"), FALSE)
       /\ UNCHANGED store

\* ValueWrite with the values compared by === instead of Object.is
ValueWriteStrict(op, name, v) ==
  IF ~StrictEq(value, v)
  THEN /\ value' = v
       /\ Notify(op, Cop(name, "-", v, "this"), v)
       /\ UNCHANGED <<kind, map, set, derived>>
  ELSE /\ Complete(op, Cop(name, "-", v, "this"), FALSE)
       /\ UNCHANGED store

\* ObservableValue.set / setAsync with newValue v, called as operation name
ValueWrite(op, name, v) ==
  IF ~ObjectIs(value, v)
  THEN /\ value' = v
       /\ Notify(op, Cop(name, "-", v, "this"), v)
       /\ UNCHANGED <<kind, map, set, derived>>
  ELSE /\ Complete(op, Cop(name, "-", v, "this"), FALSE)
       /\ UNCHANGED store

\* ObservableValue.set(newValue), setAsync(newValue)
Value_set(op, v) == kind = "value" /\ ValueWrite(op, "set", v)

\* the values the clients of SpecC store
SomeVals == {"undefined", "+0"}

\* what a function handed to update or updateWith does: it returns a value of
\* Vals, or it throws
Throws == "throws"

\* Value_update with updateFn called inside a try block whose catch drops the
\* error: the operation returns as if nothing had happened
Value_updateSwallows(op, r) ==
  /\ kind = "value"
  /\ IF r = Throws
     THEN /\ Complete(op, Cop("update", "-", "-", "updateFn error"), FALSE)
          /\ UNCHANGED store
     ELSE ValueWrite(op, "update", r)

\* ObservableValue.update(updateFn), updateAsync(updateFn); r is what
\* updateFn(this.#value) does
Value_update(op, r) ==
  /\ kind = "value"
  /\ IF r = Throws
     THEN /\ Complete(op, Cop("update", "-", "-", "updateFn error"), TRUE)
          /\ UNCHANGED store
     ELSE ValueWrite(op, "update", r)

\* MapWrite without this.#map.set(key, value): the observers are notified of
\* an entry that is not stored
MapWriteNoStore(op, name, k, v) ==
  LET exists == MapHas(map, k)
      oldValue == MapGet(map, k)
  IN  IF oldValue # "undefined" /\ StrictEq(oldValue, v)
      THEN /\ Complete(op, Cop(name, k, v, "this"), FALSE)
           /\ UNCHANGED store
      ELSE /\ Notify(op, Cop(name, k, v, "this"),
                     Event(IF exists THEN "update" ELSE "add", k, v, oldValue))
           /\ UNCHANGED store

\* ObservableMap.set / setAsync with (key, value), called as operation name
MapWrite(op, name, k, v) ==
  LET exists == MapHas(map, k)
      oldValue == MapGet(map, k)
  IN  IF oldValue # "undefined" /\ StrictEq(oldValue, v)
      THEN /\ Complete(op, Cop(name, k, v, "this"), FALSE)
           /\ UNCHANGED store
      ELSE /\ map' = MapPut(map, k, v)
           /\ Notify(op, Cop(name, k, v, "this"),
                     Event(IF exists THEN "update" ELSE "add", k, v, oldValue))
           /\ UNCHANGED <<kind, value, set, derived>>

\* MapErase with this.#map.get(key) read after this.#map.delete(key): the
\* event carries no old value
MapEraseLateRead(op, name, k) ==
  LET result == MapHas(map, k)
      v == MapGet(MapRemove(map, k), k)
  IN  IF result
      THEN /\ map' = MapRemove(map, k)
           /\ Notify(op, Cop(name, k, "-", "true"), Event("delete", k, "-", v))
           /\ UNCHANGED <<kind, value, set, derived>>
      ELSE /\ Complete(op, Cop(name, k, "-", "false"), FALSE)
           /\ UNCHANGED store

\* ObservableMap.delete / deleteAsync, called as operation name
MapErase(op, name, k) ==
  LET v == MapGet(map, k)
      result == MapHas(map, k)
  IN  IF result
      THEN /\ map' = MapRemove(map, k)
           /\ Notify(op, Cop(name, k, "-", "true"), Event("delete", k, "-", v))
           /\ UNCHANGED <<kind, value, set, derived>>
      ELSE /\ Complete(op, Cop(name, k, "-", "false"), FALSE)
           /\ UNCHANGED store

\* ObservableMap.set(key, value), setAsync(key, value); the registry inherits them
Map_set(op, k, v) == kind \in {"map", "registry"} /\ MapWrite(op, "set", k, v)

\* ObservableMap.delete(key), deleteAsync(key)
Map_delete(op, k) == kind \in {"map", "registry"} /\ MapErase(op, "delete", k)

\* Map_clear without the test of this.#map.size: an empty collection is
\* cleared and its observers are notified too
Map_clearAlways(op) ==
  /\ kind \in {"map", "registry"}
  /\ map' = <<>>
  /\ Notify(op, Cop("clear", "-", "-", "void"), Event("clear", "null", "-", "-"))
  /\ UNCHANGED <<kind, value, set, derived>>

\* ObservableMap.clear(), clearAsync()
Map_clear(op) ==
  /\ kind \in {"map", "registry"}
  /\ IF Len(map) = 0
     THEN /\ Complete(op, Cop("clear", "-", "-", "void"), FALSE)
          /\ UNCHANGED store
     ELSE /\ map' = <<>>
          /\ Notify(op, Cop("clear", "-", "-", "void"), Event("clear", "null", "-", "-"))
          /\ UNCHANGED <<kind, value, set, derived>>

\* Set_add without the test of this.#set.has(value): adding an item that is
\* present notifies too
Set_addAlways(op, x) ==
  /\ kind = "set"
  /\ set' = SetAdd(set, x)
  /\ Notify(op, Cop("add", x, "-", "this"), Event("add", x, "true", "-"))
  /\ UNCHANGED <<kind, value, map, derived>>

\* ObservableSet.add(value), addAsync(value)
Set_add(op, x) ==
  /\ kind = "set"
  /\ LET exists == x \in Range(set)
     IN  IF ~exists
         THEN /\ set' = SetAdd(set, x)
              /\ Notify(op, Cop("add", x, "-", "this"), Event("add", x, "true", "-"))
              /\ UNCHANGED <<kind, value, map, derived>>
         ELSE /\ Complete(op, Cop("add", x, "-", "this"), FALSE)
              /\ UNCHANGED store

\* ObservableSet.delete(value), deleteAsync(value)
Set_delete(op, x) ==
  /\ kind = "set"
  /\ LET result == x \in Range(set)
     IN  IF result
         THEN /\ set' = SetDelete(set, x)
              /\ Notify(op, Cop("delete", x, "-", "true"), Event("delete", x, "-", "true"))
              /\ UNCHANGED <<kind, value, map, derived>>
         ELSE /\ Complete(op, Cop("delete", x, "-", "false"), FALSE)
              /\ UNCHANGED store

\* ObservableSet.clear(), clearAsync()
Set_clear(op) ==
  /\ kind = "set"
  /\ IF Len(set) = 0
     THEN /\ Complete(op, Cop("clear", "-", "-", "void"), FALSE)
          /\ UNCHANGED store
     ELSE /\ set' = <<>>
          /\ Notify(op, Cop("clear", "-", "-", "void"), Event("clear", "null", "-", "-"))
          /\ UNCHANGED <<kind, value, map, derived>>

\* Registry_register without the test of this.has(key): a registered key is
\* overwritten
Registry_registerOverwrites(op, k, v) ==
  /\ kind = "registry"
  /\ MapWrite(op, "register", k, v)

\* ObservableRegistry.register(key, value), registerAsync(key, value)
Registry_register(op, k, v) ==
  /\ kind = "registry"
  /\ IF MapHas(map, k)
     THEN /\ Complete(op, Cop("register", k, v, "Already registered"), TRUE)
          /\ UNCHANGED store
     ELSE MapWrite(op, "register", k, v)

\* ObservableRegistry.unregister(key), unregisterAsync(key)
Registry_unregister(op, k) == kind = "registry" /\ MapErase(op, "unregister", k)

\* Registry_update without the test of this.has(key): update of a key that is
\* not registered stores it
Registry_updateCreates(op, k, v) ==
  /\ kind = "registry"
  /\ MapWrite(op, "update", k, v)

\* ObservableRegistry.update(key, value), updateAsync(key, value)
Registry_update(op, k, v) ==
  /\ kind = "registry"
  /\ IF ~MapHas(map, k)
     THEN /\ Complete(op, Cop("update", k, v, "Cannot update"), TRUE)
          /\ UNCHANGED store
     ELSE MapWrite(op, "update", k, v)

\* ObservableRegistry.get(key, throwErrorOnMissing): the value, or Throws
Registry_get(m, k, throwErrorOnMissing) ==
  IF MapGet(m, k) = "undefined" /\ throwErrorOnMissing THEN Throws ELSE MapGet(m, k)

\* Registry_updateWith with updateFn called inside a try block whose catch
\* drops the error: the operation returns as if nothing had happened
Registry_updateWithSwallows(op, k, r) ==
  /\ kind = "registry"
  /\ IF Registry_get(map, k, TRUE) = Throws
     THEN /\ Complete(op, Cop("updateWith", k, "-", "Not registered"), TRUE)
          /\ UNCHANGED store
     ELSE IF r = Throws
     THEN /\ Complete(op, Cop("updateWith", k, "-", "updateFn error"), FALSE)
          /\ UNCHANGED store
     ELSE MapWrite(op, "updateWith", k, r)

\* ObservableRegistry.updateWith(key, updateFn), updateWithAsync(key, updateFn);
\* r is what updateFn(currentValue) does
Registry_updateWith(op, k, r) ==
  /\ kind = "registry"
  /\ IF Registry_get(map, k, TRUE) = Throws
     THEN /\ Complete(op, Cop("updateWith", k, "-", "Not registered"), TRUE)
          /\ UNCHANGED store
     ELSE IF r = Throws
     THEN /\ Complete(op, Cop("updateWith", k, "-", "updateFn error"), TRUE)
          /\ UNCHANGED store
     ELSE MapWrite(op, "updateWith", k, r)

\* onChange(fn) of a container: this.#signal.connect(fn)
OnChange(fn) == kind # "signal" /\ Connect(fn)

\* the token returned by onChange(fn)
OnChangeToken(fn) == kind # "signal" /\ ConnectToken(fn)

\* SpecC: one observable container (a scalar, a keyed collection, a
\* unique-item collection or a registry) whose clients call it from the event
\* loop, and whose change handlers return, throw or return a promise.  A
\* scalar is constructed with any value, the collections empty.  Handlers
\* throw and promises reject with an Error.
InitC ==
  /\ handlers = <<>>
  /\ onceHandlers = <<>>
  /\ errorHandlers = <<>>
  /\ stack = <<>>
  /\ waiting = {}
  /\ prom = [p \in PromIds |-> FreeProm]
  /\ ret = NoRet
  /\ route = NoRoute
  /\ onceRuns = [fn \in Fn |-> 0]
  /\ kind \in {"value", "map", "set", "registry"}
  /\ value \in (IF kind = "value" THEN Vals ELSE {NoValue})
  /\ map = <<>>
  /\ set = <<>>
  /\ derived = NoDerived

\* Error instances, and the outcomes of handlers that throw nothing else
Errors == {x \in ErrVals : x.isError}
ErrorOutcomes == {o \in Outcomes : o.t = "throw" => o.e \in Errors}

\* the clients of SpecC issue one operation at a time: the next one after the
\* last has returned or, if it was an Async one, resolved
Idle == AtTop /\ waiting = {}

NextC ==
  \/ Idle /\ \E fn \in Fn : OnChange(fn)
  \/ Idle /\ \E fn \in Fn : OnChangeToken(fn)
  \/ Idle /\ \E op \in Ops : \E v \in SomeVals : Value_set(op, v)
  \/ Idle /\ \E op \in Ops : \E r \in SomeVals \cup {Throws} : Value_update(op, r)
  \/ Idle /\ \E op \in Ops : \E k \in Keys : \E v \in SomeVals : Map_set(op, k, v)
  \/ Idle /\ \E op \in Ops : \E k \in Keys : Map_delete(op, k)
  \/ Idle /\ \E op \in Ops : Map_clear(op)
  \/ Idle /\ \E op \in Ops : \E x \in Keys : Set_add(op, x)
  \/ Idle /\ \E op \in Ops : \E x \in Keys : Set_delete(op, x)
  \/ Idle /\ \E op \in Ops : Set_clear(op)
  \/ Idle /\ \E op \in Ops : \E k \in Keys : \E v \in SomeVals : Registry_register(op, k, v)
  \/ Idle /\ \E op \in Ops : \E k \in Keys : Registry_unregister(op, k)
  \/ Idle /\ \E op \in Ops : \E k \in Keys : \E v \in SomeVals : Registry_update(op, k, v)
  \/ Idle /\ \E op \in Ops : \E k \in Keys : \E r \in SomeVals \cup {Throws} : Registry_updateWith(op, k, r)
  \/ Returns(ErrorOutcomes)
  \/ Jobs(Errors)

SpecC == InitC /\ [][NextC]_vars

\* SpecCmp: a scalar or a keyed collection that stores every value of Vals, so
\* that each case of the comparison of the new value with the stored one
\* occurs.  The clients issue one operation at a time; the change handlers
\* return or throw.
InitCmp == InitC /\ kind \in {"value", "map"}

NextCmp ==
  \/ Idle /\ \E fn \in Fn : OnChange(fn)
  \/ Idle /\ \E op \in Ops : \E v \in Vals : Value_set(op, v)
  \/ Idle /\ \E op \in Ops : \E k \in Keys : \E v \in Vals : Map_set(op, k, v)
  \/ Idle /\ \E op \in Ops : \E k \in Keys : Map_delete(op, k)
  \/ Returns(ErrorOutcomes \cap SyncOutcomes)

SpecCmp == InitCmp /\ [][NextCmp]_vars

\* SpecOverlap: a scalar whose clients do not wait for an Async operation to
\* resolve before they issue the next operation
InitOverlap == InitC /\ kind = "value"

NextOverlap ==
  \/ AtTop /\ \E fn \in Fn : OnChange(fn)
  \/ AtTop /\ \E op \in Ops : \E v \in SomeVals : Value_set(op, v)
  \/ AtTop /\ \E op \in Ops : \E r \in SomeVals \cup {Throws} : Value_update(op, r)
  \/ Returns(ErrorOutcomes)
  \/ Jobs(Errors)

SpecOverlap == InitOverlap /\ [][NextOverlap]_vars

\* SpecReg: a registry whose clients do not wait for a registerAsync to
\* resolve before they register again; they unregister when no call is pending
InitReg == InitC /\ kind = "registry"

NextReg ==
  \/ AtTop /\ \E fn \in Fn : OnChange(fn)
  \/ AtTop /\ \E op \in Ops : \E k \in Keys : \E v \in SomeVals : Registry_register(op, k, v)
  \/ Idle /\ \E k \in Keys : Registry_unregister("emit", k)
  \/ Returns(ErrorOutcomes)
  \/ Jobs(Errors)

SpecReg == InitReg /\ [][NextReg]_vars

\* SpecOrder: a scalar or a keyed collection whose clients do not wait for an
\* Async operation to resolve before they issue the next operation; the
\* change handlers leave the container alone and return, with a promise or
\* without
InitOrder == InitC /\ kind \in {"value", "map"}

NextOrder ==
  \/ AtTop /\ \E fn \in Fn : OnChange(fn)
  \/ AtTop /\ \E op \in Ops : \E v \in SomeVals : Value_set(op, v)
  \/ AtTop /\ \E op \in Ops : \E k \in Keys : \E v \in SomeVals : Map_set(op, k, v)
  \/ AtTop /\ \E k \in Keys : Map_delete("emit", k)
  \/ Returns({o \in Outcomes : o.t # "throw"})
  \/ Jobs(Errors)

SpecOrder == InitOrder /\ [][NextOrder]_vars

\* ------------------------------------------------------------ EventEmitter

\* the events (topics) clients name
Topics == {"t1", "t2"}

\* new Signal(), as far as an EventEmitter can reach into it: on/off change
\* #handlers, onError/offError change #errorHandlers; the emitter has no
\* method that calls once, so #onceHandlers of its signals stays empty
NewSignal == [handlers |-> <<>>, errorHandlers |-> <<>>]

\* the error a handler of an emitter throws
Boom == [isError |-> TRUE, msg |-> "boom"]

\* signal.emit(data) of a signal with handlers hs and error handlers ehs,
\* when the handlers of thr throw and no handler calls the emitter: the
\* invocations, the calls of error handlers, what console.error received, and
\* the handlerCount
RECURSIVE SignalEmit(_, _, _, _)
SignalEmit(hs, ehs, d, thr) ==
  IF Len(hs) = 0
  THEN [inv |-> <<>>, calls |-> <<>>, sink |-> <<>>, count |-> 0]
  ELSE LET rest == SignalEmit(Tail(hs), ehs, d, thr)
           threw == Head(hs) \in thr
           r == HandleError(ehs, Boom, {})
       IN  [inv |-> <<<<"h", Head(hs), d>>>> \o rest.inv,
            calls |-> (IF threw THEN r.calls ELSE <<>>) \o rest.calls,
            sink |-> (IF threw THEN r.sink ELSE <<>>) \o rest.sink,
            count |-> (IF threw THEN 0 ELSE 1) + rest.count]

\* what a call of an emitter method leaves in ret: the method, the event and
\* the function it was called with
Emitted(name, event, fn) ==
  [status |-> "called",
   f |-> [NoFrame EXCEPT !.op = name, !.cop = Cop(name, event, "-", "-"), !.cur = fn]]

\* what no method of the emitter touches: the variables of a signal used on
\* its own, and the other containers
EmitterFrame ==
  UNCHANGED <<handlers, onceHandlers, errorHandlers, stack, waiting, prom,
              onceRuns, kind, value, set, derived>>

\* EventEmitter.on(event, fn)
EventEmitter_on(event, fn) ==
  /\ kind = "emitter" /\ AtTop
  /\ LET signal == MapGet(map, event)
     IN  IF MapHas(map, event)
         THEN map' = MapPut(map, event, [signal EXCEPT !.handlers = SetAdd(@, fn)])
         ELSE map' = map
  /\ ret' = Emitted("on", event, fn)
  /\ route' = NoRoute
  /\ EmitterFrame

\* EventEmitter.off(event, fn)
EventEmitter_off(event, fn) ==
  /\ kind = "emitter" /\ AtTop
  /\ LET signal == MapGet(map, event)
     IN  IF MapHas(map, event)
         THEN map' = MapPut(map, event, [signal EXCEPT !.handlers = SetDelete(@, fn)])
         ELSE map' = map
  /\ ret' = Emitted("off", event, fn)
  /\ route' = NoRoute
  /\ EmitterFrame

\* EventEmitter.onError(event, fn)
EventEmitter_onError(event, fn) ==
  /\ kind = "emitter" /\ AtTop
  /\ LET signal == MapGet(map, event)
     IN  IF MapHas(map, event)
         THEN map' = MapPut(map, event, [signal EXCEPT !.errorHandlers = SetAdd(@, fn)])
         ELSE map' = map
  /\ ret' = Emitted("onError", event, fn)
  /\ route' = NoRoute
  /\ EmitterFrame

\* EventEmitter.offError(event, fn)
EventEmitter_offError(event, fn) ==
  /\ kind = "emitter" /\ AtTop
  /\ LET signal == MapGet(map, event)
     IN  IF MapHas(map, event)
         THEN map' = MapPut(map, event, [signal EXCEPT !.errorHandlers = SetDelete(@, fn)])
         ELSE map' = map
  /\ ret' = Emitted("offError", event, fn)
  /\ route' = NoRoute
  /\ EmitterFrame

\* EventEmitter.emit(event, data); thr are the handlers that throw
EventEmitter_emit(event, d, thr) ==
  /\ kind = "emitter" /\ AtTop
  /\ LET signal == IF MapHas(map, event) THEN MapGet(map, event) ELSE NewSignal
         r == SignalEmit(signal.handlers, signal.errorHandlers, d,
                         thr \cap Range(signal.handlers))
     IN  /\ ret' = [status |-> "returned",
                    f |-> [NoFrame EXCEPT !.op = "emit",
                                          !.cop = Cop("emit", event, "-", "this"),
                                          !.data = d, !.pc = "once",
                                          !.h0 = signal.handlers,
                                          !.inv = r.inv, !.count = r.count,
                                          !.threw = Len(r.inv) - r.count]]
         /\ route' = IF Len(r.inv) > r.count
                     THEN [NoRoute EXCEPT !.src = "sync", !.err = Boom,
                                          !.ehs = signal.errorHandlers,
                                          !.calls = r.calls, !.sink = r.sink]
                     ELSE NoRoute
  /\ map' = map
  /\ EmitterFrame

\* EventEmitter.getEvents()
EventEmitter_getEvents == [j \in 1..Len(map) |-> map[j][1]]

\* EventEmitter.destroy without this.#signals.clear(): the signals are
\* disconnected and stay in the table
EventEmitter_destroyKeepsSignals ==
  /\ kind = "emitter" /\ AtTop
  /\ map' = [j \in 1..Len(map) |-> <<map[j][1], [map[j][2] EXCEPT !.handlers = <<>>]>>]
  /\ ret' = [Emitted("destroy", "-", NoFn) EXCEPT !.f.count = Len(map)]
  /\ route' = NoRoute
  /\ EmitterFrame

\* EventEmitter.destroy(): signal.disconnect() on every signal, then
\* this.#signals.clear(); ret.f.count is the number of signals the loop went
\* through
EventEmitter_destroy ==
  /\ kind = "emitter" /\ AtTop
  /\ map' = <<>>
  /\ ret' = [Emitted("destroy", "-", NoFn) EXCEPT !.f.count = Len(map)]
  /\ route' = NoRoute
  /\ EmitterFrame

\* the tables new EventEmitter(events) builds: one new signal per event, in
\* the order of events, which holds no event twice
Constructed ==
  {<<>>} \cup {<<<<t, NewSignal>>>> : t \in Topics}
         \cup {<<<<p[1], NewSignal>>, <<p[2], NewSignal>>>> :
                 p \in {q \in Topics \X Topics : q[1] # q[2]}}

\* SpecE: one EventEmitter, constructed with any events, whose clients call
\* it from the event loop and whose handlers return or throw
InitE ==
  /\ handlers = <<>>
  /\ onceHandlers = <<>>
  /\ errorHandlers = <<>>
  /\ stack = <<>>
  /\ waiting = {}
  /\ prom = [p \in PromIds |-> FreeProm]
  /\ ret = NoRet
  /\ route = NoRoute
  /\ onceRuns = [fn \in Fn |-> 0]
  /\ kind = "emitter"
  /\ value = NoValue
  /\ map \in Constructed
  /\ set = <<>>
  /\ derived = NoDerived

NextE ==
  \/ \E event \in Topics : \E fn \in Fn : EventEmitter_on(event, fn)
  \/ \E event \in Topics : \E fn \in Fn : EventEmitter_off(event, fn)
  \/ \E event \in Topics : \E fn \in ErrFn : EventEmitter_onError(event, fn)
  \/ \E event \in Topics : \E fn \in ErrFn : EventEmitter_offError(event, fn)
  \/ \E event \in Topics : \E d \in Data : \E thr \in SUBSET Fn :
       EventEmitter_emit(event, d, thr)
  \/ EventEmitter_destroy

SpecE == InitE /\ [][NextE]_vars

\* ------------------------------------------------- ObservableValue.map

\* the transform the clients hand to map: x => -x
Transform(v) ==
  CASE v = "+0" -> "-0"
    [] v = "-0" -> "+0"
    [] OTHER -> "NaN"

\* the observer the clients of SpecM subscribe to the source, and the handler
\* that map subscribes to it: (value) => derived.set(transform(value))
Observer == 1
Closure == 2

\* promises returned by the handler of the derived observable that may be
\* pending at a time
MaxPending == 2

\* derived.set(newValue): ObservableValue.set on the derived observable; its
\* emit calls the handler subscribed to it, if any, and does not wait for the
\* promise that handler returns
DerivedSet(d, newValue) ==
  IF ~ObjectIs(d.value, newValue)
  THEN [d EXCEPT !.value = newValue,
                 !.pending = IF d.observed THEN @ + 1 ELSE @]
  ELSE d

\* Value_map with the handler subscribed by once instead of onChange: the
\* derived observable follows the first change only
Value_mapOnce ==
  /\ kind = "value" /\ AtTop /\ ~derived.made
  /\ derived' = [NoDerived EXCEPT !.made = TRUE, !.value = Transform(value)]
  /\ onceHandlers' = SetAdd(onceHandlers, Closure)
  /\ onceRuns' = [onceRuns EXCEPT ![Closure] = 0]
  /\ Quiet
  /\ UNCHANGED <<handlers, errorHandlers, stack, waiting, prom, kind, value, map, set>>

\* ObservableValue.map(transform), called once
Value_map ==
  /\ kind = "value" /\ AtTop /\ ~derived.made
  /\ derived' = [NoDerived EXCEPT !.made = TRUE, !.value = Transform(value)]
  /\ handlers' = SetAdd(handlers, Closure)
  /\ Quiet
  /\ UNCHANGED <<onceHandlers, errorHandlers, stack, waiting, prom, onceRuns,
                 kind, value, map, set>>

\* derived.onChange(fn) with a handler that returns a promise
Derived_onChange ==
  /\ derived.made /\ ~derived.observed /\ AtTop
  /\ derived' = [derived EXCEPT !.observed = TRUE]
  /\ Quiet
  /\ UNCHANGED <<handlers, onceHandlers, errorHandlers, stack, waiting, prom,
                 onceRuns, kind, value, map, set>>

\* a promise returned by the handler of the derived observable settles
Derived_settle ==
  /\ derived.pending > 0
  /\ derived' = [derived EXCEPT !.pending = @ - 1]
  /\ Quiet
  /\ UNCHANGED <<handlers, onceHandlers, errorHandlers, stack, waiting, prom,
                 onceRuns, kind, value, map, set>>

\* the handler of map returns: it has called derived.set(transform(value))
\* and hands its result, the derived observable, back to the pass
ClosureReturn ==
  /\ IF Len(stack) > 0 THEN Top.cur = Closure ELSE FALSE
  /\ HandlerStep([t |-> "ok", e |-> NoErr], {})
  /\ derived' = DerivedSet(derived, Transform(Top.data))
  /\ UNCHANGED <<kind, value, map, set>>

\* an observer of the source returns
ObserverReturn(outs) ==
  /\ IF Len(stack) > 0 THEN Top.cur # Closure ELSE FALSE
  /\ Returns(outs)

\* SpecM: a scalar, the observable derived from it with map, an observer of
\* the scalar and a handler of the derived observable that returns a promise.
\* The clients call from the event loop, one operation on the source at a
\* time; observers do not call the observables.
InitM == InitC /\ kind = "value"

CanMutate == Idle /\ derived.pending < MaxPending

NextM ==
  \/ Idle /\ OnChange(Observer)
  \/ Idle /\ Value_map
  \/ Idle /\ Derived_onChange
  \/ CanMutate /\ \E op \in Ops : \E v \in Vals : Value_set(op, v)
  \/ CanMutate /\ \E op \in Ops : \E r \in Vals \cup {Throws} : Value_update(op, r)
  \/ ObserverReturn(ErrorOutcomes)
  \/ ClosureReturn
  \/ Jobs(Errors)
  \/ Derived_settle

SpecM == InitM /\ [][NextM]_vars

\* SpecU: a scalar whose clients call update from the event loop and whose
\* synchronous observers may call set on it while they are being notified
InitU == InitC /\ kind = "value"

NextU ==
  \/ AtTop /\ \E fn \in Fn : OnChange(fn)
  \/ AtTop /\ \E r \in SomeVals \cup {Throws} : Value_update("emit", r)
  \/ InHandler /\ \E v \in SomeVals : Value_set("emit", v)
  \/ Returns(ErrorOutcomes \cap SyncOutcomes)

SpecU == InitU /\ [][NextU]_vars

\* ================================================================ properties

\* an emit or emitAsync call has just ended its loops (ret.f is its frame)
PassEnded == ret.status \in {"returned", "resolved", "suspended"} /\ ret.f.pc = "once"

\* the invocations a pass owes to the handlers registered when it was called:
\* the persistent ones in subscription order, then the one-shot ones in
\* subscription order, each with the payload
Owed(f) ==
  [k \in 1..(Len(f.h0) + Len(f.o0)) |->
     IF k <= Len(f.h0) THEN <<"h", f.h0[k], f.data>>
     ELSE <<"o", f.o0[k - Len(f.h0)], f.data>>]

\* C1: in an emit or emitAsync call whose handlers do not call the signal,
\* every handler registered at call time is invoked exactly once with the
\* payload, persistent handlers in subscription order and then one-shot
\* handlers in subscription order, whether or not earlier handlers threw; the
\* call never ends early.
C1_EveryHandlerOnceInOrder ==
  ret.status \notin {"none", "called"} /\ ret.f.pc # "await" /\ ret.f.pure =>
    /\ PassEnded
    /\ Len(ret.f.inv) = Len(ret.f.h0) + Len(ret.f.o0)
    /\ \A k \in 1..Len(ret.f.inv) : ret.f.inv[k] = Owed(ret.f)[k]

\* a pass over two persistent and two one-shot handlers, all of which threw
C1_Witness ==
  /\ PassEnded
  /\ Len(ret.f.h0) = 2 /\ Len(ret.f.o0) = 2
  /\ Len(ret.f.inv) = 4 /\ ret.f.threw = 4

\* C2: a handler registered by once() is invoked at most one time, also when
\* emit is issued from inside a handler while a pass is in progress.
C2_OnceAtMostOnce == \A fn \in Fn : onceRuns[fn] <= 1

\* C3: emitAsync resolves only when every promise returned by a handler
\* invoked in that call has settled, never while one of them is pending.
C3_JoinBarrier ==
  [][ret'.status = "resolved" /\ ret'.f.op = "emitAsync" =>
       \A p \in ret'.f.proms : prom[p].st \in {"rejected", "done", "failed"}]_vars

\* an emitAsync that collected two promises has resolved
C3_Witness ==
  ret.status = "resolved" /\ ret.f.op = "emitAsync" /\ Cardinality(ret.f.proms) = 2

\* C4: emitAsync never rejects because of a handler failure; when it resolves,
\* every rejection of a promise it collected has been handed to #handleError.
C4_EmitAsyncNeverRejects ==
  ret.f.op = "emitAsync" =>
    /\ ret.status \in {"resolved", "suspended"}
    /\ ret.status = "resolved" => ret.f.unrouted = 0

\* an emitAsync one of whose handlers threw and another returned a promise that
\* rejected has resolved
C4_Witness ==
  /\ ret.status = "resolved" /\ ret.f.op = "emitAsync"
  /\ ret.f.threw >= 1 /\ ret.f.rejd >= 1

\* C5: emit returns at the end of its loops whatever promises its handlers
\* returned (it is never suspended); the rejection of such a promise is handed
\* to #handleError only once the promise has rejected, and every rejection is
\* eventually handed to it.
C5_EmitDoesNotWait ==
  /\ [](ret.f.op = "emit" => ret.status = "returned")
  /\ [][route'.src = "promise" => prom[route'.p].st = "rejected"]_vars
  /\ \A p \in PromIds :
       (prom[p].st = "rejected") ~> (route.src = "promise" /\ route.p = p)

\* the rejection of a promise that no suspended emitAsync holds, so one
\* returned to an emit that has returned since, is handed to #handleError
C5_Witness ==
  /\ route.src = "promise"
  /\ Holders(route.p) = {}
  /\ Len(stack) = 0

\* C6: the number emit returns (emitAsync resolves with) is the number of
\* handlers invoked in the call, whether or not an invoked handler failed.
C6_CountsInvoked == PassEnded => ret.f.count = Len(ret.f.inv)

\* C7: listenerCount() is the number of registered persistent handlers plus
\* the number of registered one-shot handlers, error handlers not counted, and
\* hasHandlers() holds exactly when that number is positive.
C7_ListenerCount ==
  /\ ListenerCount = Cardinality(Range(handlers)) + Cardinality(Range(onceHandlers))
  /\ HasHandlers <=> (Range(handlers) \cup Range(onceHandlers) # {})

\* a function registered both ways next to another handler, and error handlers
C7_Witness ==
  /\ 1 \in Range(handlers) /\ 1 \in Range(onceHandlers)
  /\ ListenerCount = 3
  /\ Len(errorHandlers) = 2

\* C8: when a handler fails and error handlers are registered, each of them
\* is called once with the (normalised) error, in subscription order, and
\* console.error does not receive the error; when none is registered
\* console.error receives the error exactly once.
C8_ErrorPath ==
  route.src # "none" =>
    LET errorObj == [isError |-> TRUE, msg |-> route.err.msg]
    IN  IF Len(route.ehs) > 0
        THEN /\ Len(route.calls) = Len(route.ehs)
             /\ \A k \in 1..Len(route.ehs) : route.calls[k] = <<route.ehs[k], errorObj>>
             /\ \A k \in 1..Len(route.sink) : route.sink[k].err # errorObj
        ELSE /\ Len(route.calls) = 0
             /\ Len(route.sink) = 1
             /\ route.sink[1] = [tag |-> "", err |-> errorObj]

\* a thrown string is handed to two error handlers
C8_Witness ==
  /\ route.src = "sync"
  /\ Len(route.ehs) = 2
  /\ ~route.err.isError

\* C9: an error handler that throws does not keep the other error handlers
\* from being called; its failure goes to console.error and nothing is thrown
\* to the caller of emit/emitAsync.
C9_ErrorHandlerThrows ==
  /\ route.bad # {} =>
       /\ Len(route.calls) = Len(route.ehs)
       /\ Cardinality({k \in 1..Len(route.sink) :
                         route.sink[k].tag = "Error in error handler:"})
            = Cardinality(route.bad)
       /\ ~route.thrown
  /\ ret.status \notin {"threw", "rejected"}

\* the first of two error handlers throws
C9_Witness ==
  /\ Len(route.ehs) = 2
  /\ route.bad = {route.ehs[1]}
  /\ Len(route.calls) = 2

\* the mutation that operation cop made is in place
Applied(cop) ==
  CASE kind = "value" -> value = cop.val
    [] kind = "set" /\ cop.name = "add" -> cop.key \in Range(set)
    [] kind = "set" /\ cop.name = "delete" -> cop.key \notin Range(set)
    [] kind = "set" /\ cop.name = "clear" -> Len(set) = 0
    [] kind \in {"map", "registry"} /\ cop.name \in {"delete", "unregister"} ->
         ~MapHas(map, cop.key)
    [] kind \in {"map", "registry"} /\ cop.name = "clear" -> Len(map) = 0
    [] OTHER -> MapHas(map, cop.key) /\ MapGet(map, cop.key) = cop.val

\* C10: a change handler that throws or whose promise rejects does not make
\* the mutating operation of a container fail: the operation returns or
\* resolves, the mutation is in place when its pass ends and every handler was
\* notified.
C10_HandlerFailureContained ==
  ret.f.cop.name # "none" /\ (ret.f.threw > 0 \/ ret.f.rejd > 0) =>
    /\ ret.status \in {"returned", "resolved", "suspended"}
    /\ ret.f.pc = "once" =>
         /\ Applied(ret.f.cop)
         /\ Len(ret.f.inv) = Len(ret.f.h0)

\* an Async mutator resolves after one of its handlers threw and the promise
\* of the other rejected
C10_Witness ==
  /\ ret.f.cop.name # "none"
  /\ ret.status = "resolved"
  /\ ret.f.threw = 1 /\ ret.f.rejd = 1

\* a client issues an operation from the event loop in this step; Begun is the
\* record of the operation: the frame of its pass (inside its first handler,
\* or ended already) or, when it did not notify, the record of its completion
Begins ==
  /\ Len(stack) = 0
  /\ Len(stack') > 0 \/ (ret'.status # "none" /\ ret'.f.pc # "await")

Begun == IF Len(stack') > 0 THEN stack'[1] ELSE ret'.f

\* every handler registered when the pass was called was notified once, with
\* payload d
NotifiedOnce(f, d) ==
  /\ Len(f.inv) = Len(f.h0)
  /\ \A k \in 1..Len(f.inv) : f.inv[k] = <<"h", f.h0[k], d>>

\* C11: set(v)/setAsync(v) on a scalar whose stored value is identical to v
\* (values being told apart as Object.is does: NaN is NaN, +0 is not -0)
\* leaves the stored value and notifies no handler; otherwise v is stored and
\* every handler is notified exactly once with v.
C11_ScalarSet ==
  /\ [][Begins /\ kind = "value" /\ Begun.cop.name = "set" =>
          IF value = Begun.cop.val
          THEN value' = value /\ Len(stack') = 0 /\ Len(Begun.inv) = 0
          ELSE /\ value' = Begun.cop.val
               /\ Begun.data = Begun.cop.val
               /\ Begun.h0 = handlers]_vars
  /\ [](PassEnded /\ kind = "value" /\ ret.f.cop.name = "set" =>
          NotifiedOnce(ret.f, ret.f.cop.val))

\* set(NaN) on a scalar that stores NaN and has two handlers has returned
\* without a pass
C11_Witness ==
  /\ kind = "value" /\ value = "NaN"
  /\ ret.f.cop.name = "set" /\ ret.f.cop.val = "NaN" /\ ret.f.pc = "done"
  /\ Len(handlers) = 2

\* C12: when the function handed to update/updateAsync of a scalar throws, the
\* stored value is unchanged, no handler is notified, nothing is handed to
\* #handleError, and the caller gets the error: update throws, the promise of
\* updateAsync rejects.
C12_UpdateFnThrows ==
  [][Begins /\ kind = "value" /\ Begun.cop.result = "updateFn error" =>
       /\ value' = value
       /\ Len(stack') = 0 /\ Len(Begun.inv) = 0
       /\ route'.src = "none"
       /\ ret'.status = (IF Begun.op = "emit" THEN "threw" ELSE "rejected")]_vars

\* updateAsync of a scalar with two handlers has rejected with the error of
\* its function
C12_Witness ==
  /\ kind = "value"
  /\ ret.status = "rejected" /\ ret.f.cop.result = "updateFn error"
  /\ Len(handlers) = 2

\* C13: an Async mutator of a container that made a change resolves only when
\* every promise returned by a change handler invoked for that change has
\* settled.
C13_AsyncMutatorJoins ==
  [][ret'.status = "resolved" /\ ret'.f.cop.name # "none" =>
       \A p \in ret'.f.proms : prom[p].st \in {"rejected", "done", "failed"}]_vars

\* updateWithAsync of a registry both of whose handlers returned a promise has
\* resolved
C13_Witness ==
  /\ ret.status = "resolved" /\ ret.f.op = "emitAsync"
  /\ ret.f.cop.name = "updateWith"
  /\ Cardinality(ret.f.proms) = 2

\* setAsync or updateAsync of a scalar has resolved (ret.f is its record)
ScalarResolved ==
  /\ kind = "value"
  /\ ret.status = "resolved"
  /\ ret.f.cop.name \in {"set", "update"}

Stored(m) == {m[j][2] : j \in 1..Len(m)}

\* C15: set(key, value) on a keyed collection with a value that differs from
\* every stored one (told apart as the identity comparator does) inserts the
\* key if it was absent, with event {add, key, value, no previous value}, and
\* overwrites it if it was present, with event {update, key, value, oldValue =
\* the value stored before}; every handler receives that event exactly once.
C15_KeyedSet ==
  /\ [][Begins /\ kind = "map" /\ Begun.cop.name = "set"
          /\ Begun.cop.val \notin Stored(map) =>
            /\ MapHas(map', Begun.cop.key)
            /\ MapGet(map', Begun.cop.key) = Begun.cop.val
            /\ Begun.pc # "done"
            /\ Begun.h0 = handlers
            /\ Begun.data = [type |-> IF MapHas(map, Begun.cop.key) THEN "update" ELSE "add",
                             key |-> Begun.cop.key,
                             value |-> Begun.cop.val,
                             oldValue |-> MapGet(map, Begun.cop.key)]]_vars
  /\ [](PassEnded /\ kind = "map" /\ ret.f.cop.name = "set" =>
          NotifiedOnce(ret.f, ret.f.data))

\* C16: set(key, v)/setAsync(key, v) on a keyed collection in which key is
\* present with a value identical to v (under the identity comparator, for
\* every stored value, undefined and NaN included) changes nothing and
\* notifies no handler.
C16_KeyedSetSame ==
  [][Begins /\ kind = "map" /\ Begun.cop.name = "set"
       /\ MapHas(map, Begun.cop.key)
       /\ MapGet(map, Begun.cop.key) = Begun.cop.val =>
         /\ map' = map
         /\ Len(stack') = 0
         /\ Len(Begun.inv) = 0]_vars

\* the keyed collection m2 is m without key k, every other entry as it was
Without(m2, m, k) ==
  /\ ~MapHas(m2, k)
  /\ \A k2 \in Keys \ {k} :
       MapHas(m2, k2) = MapHas(m, k2) /\ MapGet(m2, k2) = MapGet(m, k2)

\* C17: delete(key)/deleteAsync(key) on a keyed collection returns false,
\* changes nothing and notifies no handler when key is absent; when key is
\* present it removes the entry, returns true, and every handler receives
\* exactly one event {delete, key, oldValue = the removed value}.
C17_KeyedDelete ==
  /\ [][Begins /\ kind \in {"map", "registry"} /\ Begun.cop.name = "delete" =>
          IF ~MapHas(map, Begun.cop.key)
          THEN /\ map' = map
               /\ Len(stack') = 0 /\ Len(Begun.inv) = 0
               /\ Begun.cop.result = "false"
          ELSE /\ Without(map', map, Begun.cop.key)
               /\ Begun.cop.result = "true"
               /\ Begun.pc # "done"
               /\ Begun.h0 = handlers
               /\ Begun.data = [type |-> "delete", key |-> Begun.cop.key,
                                value |-> "-",
                                oldValue |-> MapGet(map, Begun.cop.key)]]_vars
  /\ [](PassEnded /\ kind \in {"map", "registry"} /\ ret.f.cop.name = "delete" =>
          NotifiedOnce(ret.f, ret.f.data))

\* two handlers have received the delete event of an entry that stored +0
C17_Witness ==
  /\ PassEnded /\ kind = "map"
  /\ ret.f.cop.name = "delete" /\ ret.f.cop.result = "true"
  /\ ret.f.data.oldValue = "+0"
  /\ Len(ret.f.inv) = 2

\* C18: clear()/clearAsync() on an empty keyed or unique-item collection
\* changes nothing and notifies no handler; on a collection with entries it
\* removes them all (size 0 when the handlers run) and every handler receives
\* exactly one event {clear, key = null}.
C18_Clear ==
  /\ [][Begins /\ Begun.cop.name = "clear" =>
          IF Len(map) + Len(set) = 0
          THEN /\ Len(map') + Len(set') = 0
               /\ Len(stack') = 0 /\ Len(Begun.inv) = 0
          ELSE /\ Len(map') + Len(set') = 0
               /\ Begun.pc # "done"
               /\ Begun.h0 = handlers
               /\ Begun.data = [type |-> "clear", key |-> "null",
                                value |-> "-", oldValue |-> "-"]]_vars
  /\ [](PassEnded /\ ret.f.cop.name = "clear" =>
          NotifiedOnce(ret.f, ret.f.data) /\ Len(map) + Len(set) = 0)

\* two handlers have each received the one clear event of a unique-item
\* collection
C18_Witness ==
  /\ PassEnded /\ kind = "set"
  /\ ret.f.cop.name = "clear"
  /\ Len(ret.f.inv) = 2 /\ ret.f.inv[1][1] = "h" /\ ret.f.inv[1][3].type = "clear"
  /\ Len(set) = 0

\* the container shows the change that event d reports
Reflects(d) ==
  IF kind = "value" THEN value = d
  ELSE IF kind = "set"
  THEN CASE d.type = "add" -> d.key \in Range(set)
         [] d.type = "delete" -> d.key \notin Range(set)
         [] OTHER -> Len(set) = 0
  ELSE CASE d.type \in {"add", "update"} ->
              MapHas(map, d.key) /\ MapGet(map, d.key) = d.value
         [] d.type = "delete" -> ~MapHas(map, d.key)
         [] OTHER -> Len(map) = 0

\* C19: while a change handler runs for an event (handlers do not mutate the
\* container), the container already shows the change: for add/update
\* get(key) is the event's value, for delete has(key) is false, for clear the
\* size is 0, for a scalar get() is the delivered value.
C19_MutatedBeforeNotified ==
  \A j \in 1..Len(stack) :
    stack[j].cop.name # "none" /\ stack[j].cur # NoFn => Reflects(stack[j].data)

\* the second handler of a keyed collection runs for an update event
C19_Witness ==
  /\ Len(stack) > 0 /\ kind = "map"
  /\ Top.cop.name = "set" /\ Top.cur # NoFn
  /\ Top.data.type = "update"
  /\ Len(Top.inv) = 2

\* the operation c of a registry violates presence: register of a registered
\* key, update or updateWith of a key that is not registered
PresenceViolation(c) ==
  \/ c.name = "register" /\ MapHas(map, c.key)
  \/ c.name \in {"update", "updateWith"} /\ ~MapHas(map, c.key)

\* C20: a registry operation that violates presence (register/registerAsync
\* of a present key; update/updateAsync/updateWith/updateWithAsync of an
\* absent key) leaves the contents unchanged, notifies no change handler,
\* invokes no error handler, and fails to its caller: it throws, or the
\* promise of the Async variant rejects.
C20_PresenceViolation ==
  [][Begins /\ kind = "registry" /\ PresenceViolation(Begun.cop) =>
       /\ map' = map
       /\ Len(stack') = 0 /\ Len(Begun.inv) = 0
       /\ route' = NoRoute
       /\ ret'.status = IF Begun.op = "emit" THEN "threw" ELSE "rejected"
       /\ Begun.cop.result \in {"Already registered", "Cannot update",
                                "Not registered"}]_vars

\* register(k, v) has thrown for a key that stays mapped to another value,
\* with a change handler subscribed
C20_Witness ==
  /\ kind = "registry"
  /\ ret.status = "threw" /\ ret.f.cop.name = "register"
  /\ MapHas(map, ret.f.cop.key)
  /\ MapGet(map, ret.f.cop.key) # ret.f.cop.val
  /\ Len(handlers) > 0

\* C21: get(key, throwOnMissing) of a registry fails exactly when the key is
\* absent and throwOnMissing is true; for a present key, whatever value is
\* stored under it, get returns the stored value.
C21_GetFailsIffAbsent ==
  kind = "registry" =>
    \A k \in Keys : \A throwErrorOnMissing \in BOOLEAN :
      /\ Registry_get(map, k, throwErrorOnMissing) = Throws
           <=> (~MapHas(map, k) /\ throwErrorOnMissing)
      /\ MapHas(map, k) =>
           Registry_get(map, k, throwErrorOnMissing) = MapGet(map, k)

\* in this step the keys that become present in the registry do so by an
\* operation named in names, issued for that key from the event loop, and the
\* keys that stop being present do so by unregister, delete or clear
PresenceBy(names) ==
  kind = "registry" =>
    \A k \in Keys :
      /\ ~MapHas(map, k) /\ MapHas(map', k) =>
           /\ Begins
           /\ Begun.cop.name \in names /\ Begun.cop.key = k
           /\ ret'.status \notin {"threw", "rejected"}
      /\ MapHas(map, k) /\ ~MapHas(map', k) =>
           /\ Begins
           /\ \/ Begun.cop.name \in {"unregister", "delete"} /\ Begun.cop.key = k
              \/ Begun.cop.name = "clear"

C23_UpdateWith ==
  /\ [][Begins /\ kind = "registry" /\ Begun.cop.name = "updateWith"
          /\ Registry_get(map, Begun.cop.key, TRUE) # Throws =>
          LET k == Begun.cop.key
              w == Begun.cop.val
              old == MapGet(map, k)
          IN  IF Begun.cop.result = "updateFn error"
              THEN /\ map' = map
                   /\ Len(stack') = 0 /\ Len(Begun.inv) = 0
                   /\ route' = NoRoute
                   /\ ret'.status = IF Begun.op = "emit" THEN "threw" ELSE "rejected"
              ELSE IF StrictEq(old, w)
              THEN /\ map' = map
                   /\ Len(stack') = 0 /\ Len(Begun.inv) = 0
                   /\ ret'.status = IF Begun.op = "emit" THEN "returned" ELSE "resolved"
              ELSE /\ map' = MapPut(map, k, w)
                   /\ Begun.h0 = handlers
                   /\ Begun.data = Event("update", k, w, old)
                   /\ Begun.pc # "done"]_vars
  /\ [](PassEnded /\ ret.f.cop.name = "updateWith" =>
          NotifiedOnce(ret.f, ret.f.data))

\* updateWith has thrown the error of its transform, with a change handler
\* subscribed and the key present
C23_Witness ==
  /\ kind = "registry"
  /\ ret.status = "threw" /\ ret.f.cop.name = "updateWith"
  /\ ret.f.cop.result = "updateFn error"
  /\ MapHas(map, ret.f.cop.key)
  /\ Len(handlers) > 0

\* C24: when a pass has invoked a one-shot handler, that registration is gone
\* at the end of the pass, whether the handler returned, threw or returned a
\* promise (that may reject later): the handler was among the one-shot
\* handlers registered when the pass was called, it is no longer among them,
\* listenerCount counts the persistent handlers only, and nothing but a new
\* call of once registers it again, so that no later pass invokes it.
C24_OneShotRemoved ==
  /\ [](PassEnded /\ ret.f.cop.name = "none" =>
          /\ \A k \in 1..Len(ret.f.inv) :
               ret.f.inv[k][1] = "o" =>
                 /\ ret.f.inv[k][2] \in Range(ret.f.o0)
                 /\ ret.f.inv[k][2] \notin Range(onceHandlers)
          /\ ListenerCount = Len(handlers))
  /\ [][\A fn \in Fn :
          fn \notin Range(onceHandlers) /\ fn \in Range(onceHandlers') =>
            AtTop /\ UNCHANGED <<handlers, errorHandlers, stack, waiting, prom>>]_vars

\* a pass has ended whose only handler was a one-shot handler that threw
C24_Witness ==
  /\ PassEnded /\ ret.f.cop.name = "none"
  /\ Len(ret.f.inv) = 1 /\ ret.f.inv[1][1] = "o"
  /\ ret.f.threw = 1
  /\ Len(onceHandlers) = 0

\* C25: the token returned by once(fn), invoked while fn is registered and
\* has not fired, removes fn without running it: fn leaves the one-shot
\* handlers and nothing else changes, listenerCount drops by one, no handler
\* is called by the token, and a pass calls as one-shot handlers only
\* functions that are registered as such, so that no later emit or emitAsync
\* invokes fn.
C25_OnceTokenBeforeFiring ==
  /\ [][ret'.status = "called" /\ ret'.f.op = "onceToken" =>
          /\ onceRuns[ret'.f.cur] = 0
          /\ ret'.f.cur \notin Range(onceHandlers')
          /\ onceHandlers' = SetDelete(onceHandlers, ret'.f.cur)
          /\ ListenerCount' = ListenerCount - 1
          /\ UNCHANGED <<handlers, errorHandlers, stack, waiting, prom>>]_vars
  /\ [](\A j \in 1..Len(stack) :
          stack[j].pc = "once" /\ stack[j].cur # NoFn =>
            stack[j].cur \in Range(onceHandlers))

\* the token of a one-shot handler was invoked; another one-shot handler and
\* the persistent registration of the same function stay
C25_Witness ==
  /\ ret.status = "called" /\ ret.f.op = "onceToken"
  /\ ret.f.cur \notin Range(onceHandlers)
  /\ ret.f.cur \in Range(handlers)
  /\ Len(onceHandlers) = 1

\* C26: destroy() empties the persistent, the one-shot and the error
\* handlers and calls none of them, so that listenerCount() is 0 afterwards;
\* a pass calls only handlers that are registered, and an error is handed
\* only to error handlers that are registered, so that nothing registered
\* before destroy is invoked again; a pass started after destroy invokes
\* every handler subscribed since.
C26_Destroy ==
  /\ [][ret'.status = "called" /\ ret'.f.op = "destroy" =>
          /\ Len(handlers') = 0 /\ Len(onceHandlers') = 0
          /\ Len(errorHandlers') = 0
          /\ ListenerCount' = 0
          /\ UNCHANGED <<stack, waiting, prom>>]_vars
  /\ [](\A j \in 1..Len(stack) :
          stack[j].cur # NoFn =>
            stack[j].cur \in Range(IF stack[j].pc = "once" THEN onceHandlers
                                   ELSE handlers))
  /\ [](route.src # "none" =>
          \A k \in 1..Len(route.calls) : route.calls[k][1] \in Range(errorHandlers))
  /\ [](PassEnded =>
          Len(ret.f.inv) = Len(ret.f.h0) + Len(ret.f.o0))
  /\ [][Len(stack) = 0 /\ Len(stack') > 0 =>
          stack'[1].h0 = handlers /\ stack'[1].o0 = onceHandlers]_vars

\* destroy() was called while a promise returned by a handler was pending
C26_Witness ==
  /\ ret.status = "called" /\ ret.f.op = "destroy"
  /\ \E p \in PromIds : prom[p].st = "pending"
  /\ ListenerCount = 0 /\ Len(errorHandlers) = 0

\* the collection hs without x, the others in their order
Minus(hs, x) == SelectSeq(hs, LAMBDA y : y # x)

\* C27: disconnect() removes every persistent and every one-shot handler;
\* disconnect(fn) removes fn from the persistent and from the one-shot
\* handlers and leaves every other handler registered, in its place; both
\* leave the error handlers as they are, and neither calls a handler.
C27_Disconnect ==
  [][ret'.status = "called" /\ ret'.f.op = "disconnect" =>
       /\ errorHandlers' = errorHandlers
       /\ IF ret'.f.cur = NoFn
          THEN Len(handlers') = 0 /\ Len(onceHandlers') = 0
          ELSE /\ handlers' = Minus(handlers, ret'.f.cur)
               /\ onceHandlers' = Minus(onceHandlers, ret'.f.cur)
       /\ UNCHANGED <<stack, waiting, prom>>]_vars

\* disconnect(fn) was called; the other function is still registered both
\* ways, fn is not, and both error handlers are
C27_Witness ==
  /\ ret.status = "called" /\ ret.f.op = "disconnect"
  /\ ret.f.cur # NoFn
  /\ Len(handlers) = 1 /\ Len(onceHandlers) = 1
  /\ ret.f.cur \notin Range(handlers) \cup Range(onceHandlers)
  /\ Len(errorHandlers) = 2

\* C28: whenever an emitter has no signal for an event (at first, or after
\* destroy()), on(event, fn) or onError(event, fn) creates one: getEvents()
\* then contains the event, fn is registered on its signal, and a later
\* emit(event, d) invokes every handler registered for the event with d.
C28_LazyRegistration ==
  /\ [][ret'.status = "called" /\ ret'.f.op \in {"on", "onError"}
          /\ ~MapHas(map, ret'.f.cop.key) =>
          /\ MapHas(map', ret'.f.cop.key)
          /\ ret'.f.cur \in Range(IF ret'.f.op = "on"
                                  THEN MapGet(map', ret'.f.cop.key).handlers
                                  ELSE MapGet(map', ret'.f.cop.key).errorHandlers)]_vars
  /\ [](ret.status = "returned" /\ ret.f.op = "emit" /\ MapHas(map, ret.f.cop.key) =>
          NotifiedOnce([ret.f EXCEPT !.h0 = MapGet(map, ret.f.cop.key).handlers],
                       ret.f.data))

\* the handlers (error handlers) an emitter holds for an event: those of its
\* signal, none when it has no signal
HandlersOf(event) ==
  IF MapHas(map, event) THEN MapGet(map, event).handlers ELSE <<>>
ErrorHandlersOf(event) ==
  IF MapHas(map, event) THEN MapGet(map, event).errorHandlers ELSE <<>>

\* C29: destroy() of an emitter leaves getEvents() empty and calls nothing;
\* an emit invokes only handlers, and hands errors only to error handlers,
\* that the emitter holds for the event at that time, so that nothing
\* registered before destroy is invoked later; an emit for an event with no
\* signal or no handler invokes nothing and returns normally.
C29_EmitterDestroy ==
  /\ [][ret'.status = "called" /\ ret'.f.op = "destroy" =>
          /\ Len(EventEmitter_getEvents') = 0
          /\ \A event \in Topics : Len(HandlersOf(event)') = 0
                                   /\ Len(ErrorHandlersOf(event)') = 0
          /\ Len(ret'.f.inv) = 0 /\ route' = NoRoute]_vars
  /\ [][ret'.f.op = "emit" =>
          /\ ret'.status = "returned"
          /\ \A k \in 1..Len(ret'.f.inv) :
               ret'.f.inv[k][2] \in Range(HandlersOf(ret'.f.cop.key))
          /\ \A k \in 1..Len(route'.calls) :
               route'.calls[k][1] \in Range(ErrorHandlersOf(ret'.f.cop.key))
          /\ Len(HandlersOf(ret'.f.cop.key)) = 0 =>
               Len(ret'.f.inv) = 0 /\ route' = NoRoute]_vars

\* destroy() was called on an emitter that had two signals
C29_Witness ==
  /\ ret.status = "called" /\ ret.f.op = "destroy"
  /\ ret.f.count = 2
  /\ Len(EventEmitter_getEvents) = 0

\* C30: add(x)/addAsync(x) of a unique-item collection emits one event
\* {add, key x, value true} to every handler if and only if x was not
\* present; delete(x)/deleteAsync(x) emits one event {delete, key x,
\* oldValue true} to every handler and returns true if and only if x was
\* present; otherwise membership is unchanged, no handler is notified, and
\* delete returns false.
C30_UniqueItems ==
  /\ [][Begins /\ kind = "set" /\ Begun.cop.name \in {"add", "delete"} =>
          LET x == Begun.cop.key
              present == x \in Range(set)
              adds == Begun.cop.name = "add"
          IN  IF adds = present
              THEN /\ set' = set
                   /\ Len(stack') = 0 /\ Len(Begun.inv) = 0
                   /\ ret'.status = IF Begun.op = "emit" THEN "returned" ELSE "resolved"
                   /\ ~adds => Begun.cop.result = "false"
              ELSE /\ Range(set') = IF adds THEN Range(set) \cup {x}
                                     ELSE Range(set) \ {x}
                   /\ Begun.h0 = handlers
                   /\ Begun.data = IF adds THEN Event("add", x, "true", "-")
                                   ELSE Event("delete", x, "-", "true")
                   /\ Begun.pc # "done"
                   /\ ~adds => Begun.cop.result = "true"]_vars
  /\ [](PassEnded /\ kind = "set" /\ ret.f.cop.name \in {"add", "delete"} =>
          NotifiedOnce(ret.f, ret.f.data))

\* two handlers have each received the one event of a delete that returned
\* true, while another item stays
C30_Witness ==
  /\ PassEnded /\ kind = "set"
  /\ ret.f.cop.name = "delete" /\ ret.f.cop.result = "true"
  /\ Len(ret.f.inv) = 2
  /\ Len(set) = 1 /\ ret.f.cop.key \notin Range(set)

C32_UpdateAtomic ==
  ret.status = "returned" /\ Len(stack) = 0 /\ ret.f.cop.name = "update"
    /\ ret.f.pc = "once" =>
      /\ \A fn \in Range(handlers) :
           Cardinality({k \in 1..Len(ret.f.inv) : ret.f.inv[k][2] = fn}) = 1
      /\ \A k \in 1..Len(ret.f.inv) : ret.f.inv[k][3] = value

\* C33: a pass invokes as one-shot handlers only functions that were
\* registered as such when emit/emitAsync was called: one that a handler
\* registers with once while the pass is in progress is not invoked in that
\* pass.
C33_OnceSnapshotAtCall ==
  /\ \A j \in 1..Len(stack) : \A k \in 1..Len(stack[j].inv) :
       stack[j].inv[k][1] = "o" => stack[j].inv[k][2] \in Range(stack[j].o0)
  /\ \A k \in 1..Len(ret.f.inv) :
       ret.f.inv[k][1] = "o" => ret.f.inv[k][2] \in Range(ret.f.o0)

\* the step calls a handler: the innermost pass of the next state is new or
\* has one more invocation than it had
Invokes ==
  IF Len(stack') = 0 THEN FALSE
  ELSE IF Len(stack') > Len(stack) THEN Len(stack'[Len(stack')].inv) > 0
  ELSE Len(stack'[Len(stack')].inv) > Len(stack[Len(stack')].inv)

\* the handler that the innermost pass has called last, and whether that pass
\* had called it before
LastInvoked(stk) == stk[Len(stk)].inv[Len(stk[Len(stk)].inv)]
InvokedBefore(stk) ==
  \E k \in 1..(Len(stk[Len(stk)].inv) - 1) :
    stk[Len(stk)].inv[k][2] = LastInvoked(stk)[2]

\* C34: a handler that a pass calls for the first time is registered when it
\* is called, in the collection it is called from: one that another handler
\* removed earlier in the pass (cleanup token, disconnect(fn), disconnect(),
\* destroy()) is not called in the remainder of the pass.
C34_RemovedNotInvoked ==
  [][Invokes /\ ~InvokedBefore(stack') =>
       LastInvoked(stack')[2] \in
         Range(IF LastInvoked(stack')[1] = "h" THEN handlers' ELSE onceHandlers')]_vars

\* What emit(d) does (signal.ts:67-101) when it is called with persistent
\* handlers h0 and one-shot handlers o0 registered and threw of the handlers
\* throw: the invocations it makes, the number it returns and the one-shot
\* handlers it leaves registered
EmitPass(h0, o0, d, threw) ==
  [inv |-> [k \in 1..(Len(h0) + Len(o0)) |->
              IF k <= Len(h0) THEN <<"h", h0[k], d>> ELSE <<"o", o0[k - Len(h0)], d>>],
   count |-> Len(h0) + Len(o0) - threw,
   handlers |-> h0,
   onceHandlers |-> <<>>]

\* what the call that has just ended its loops did
ThisPass ==
  [inv |-> ret.f.inv, count |-> ret.f.count,
   handlers |-> handlers, onceHandlers |-> onceHandlers]

\* C35: emit and emitAsync perform the same pass: called with the same
\* handlers registered, the same payload and the same handlers throwing, either
\* makes the invocations, leaves the one-shot handlers registered and counts
\* as emit does, and either hands the error of a handler that throws to
\* #handleError in the step the handler throws; emitAsync differs in that it is
\* suspended when it collected promises, where emit returns.
C35_SamePass ==
  /\ [](PassEnded =>
         /\ ThisPass = EmitPass(ret.f.h0, ret.f.o0, ret.f.data, ret.f.threw)
         /\ ret.status = "suspended" <=> (ret.f.op = "emitAsync" /\ ret.f.proms # {}))
  /\ [][\A op \in {"emit", "emitAsync"} :
          (IF Len(stack) > 0 THEN Top.op = op ELSE FALSE) =>
            (route'.src = "sync" <=>
               \E o \in Outcomes : \E bad \in SUBSET Range(errorHandlers) :
                 o.t = "throw" /\ HandlerReturn(o, bad)
                   /\ route'.err = o.e /\ route'.ehs = errorHandlers)]_vars

\* an emitAsync over two persistent handlers and a one-shot handler, of which
\* one threw and another returned a promise, has ended its loops
C35_Witness ==
  /\ PassEnded /\ ret.f.op = "emitAsync" /\ ret.status = "suspended"
  /\ Len(ret.f.h0) = 2 /\ Len(ret.f.o0) = 1
  /\ ret.f.threw >= 1

\* C36: a suspended emitAsync waits for the promises of its own pass only: as
\* soon as each of them has settled (and the reaction of a rejected one has
\* run) and no code is running, the call can resolve, whatever the state of
\* the promises that handlers returned to other calls on the signal.
C36_OwnPassOnly ==
  \A w \in waiting :
    (Len(stack) = 0 /\ \A p \in w.proms : prom[p].st = "done") => ENABLED Resume(w)

\* an emitAsync has resolved from its await while a promise that a handler
\* returned to another call is pending
C36_Witness ==
  /\ ret.status = "resolved" /\ ret.f.op = "emitAsync" /\ ret.f.pc = "await"
  /\ \E p \in PromIds \ ret.f.proms : prom[p].st = "pending"

\* C37: while a registerAsync(k, v1) that found k absent is suspended awaiting
\* its handlers, k is stored with v1, and a second registerAsync(k, v2)
\* rejects with "Already registered" and writes nothing; the first call
\* resolves, with v1 still stored under k.
C37_OverlappingRegister ==
  /\ [](\A w \in waiting : w.cop.name = "register" => MapGet(map, w.cop.key) = w.cop.val
                                                       /\ MapHas(map, w.cop.key))
  /\ [][\A w \in waiting : \A v \in SomeVals :
          w.cop.name = "register" /\ Registry_register("emitAsync", w.cop.key, v) =>
            /\ ret'.status = "rejected"
            /\ ret'.f.cop.result = "Already registered"
            /\ map' = map
            /\ w \in waiting']_vars
  /\ [](ret.f.pc = "await" /\ ret.f.cop.name = "register" =>
          ret.status = "resolved" /\ MapGet(map, ret.f.cop.key) = ret.f.cop.val)

\* a registerAsync of another value for the key of a suspended registerAsync
\* has rejected
C37_Witness ==
  /\ ret.status = "rejected" /\ ret.f.op = "emitAsync" /\ ret.f.cop.name = "register"
  /\ \E w \in waiting :
       w.cop.name = "register" /\ w.cop.key = ret.f.cop.key /\ w.cop.val # ret.f.cop.val

C39_LiveIteration ==
  PassEnded =>
    /\ Len(ret.f.inv) = Len(handlers) + Len(ret.f.o0)
    /\ \A k \in 1..Len(handlers) : ret.f.inv[k] = <<"h", handlers[k], ret.f.data>>
    /\ ret.f.count = Len(handlers) + Len(ret.f.o0) - ret.f.threw

\* a pass has ended during which the first persistent handler connected a
\* second one; no handler threw and the count is that of both and of the
\* one-shot handler
C39_Witness ==
  /\ PassEnded /\ ~ret.f.pure
  /\ Len(ret.f.h0) = 1 /\ Len(handlers) = 2 /\ Len(ret.f.o0) = 1
  /\ ret.f.count = 3

====
